---- MODULE Spec2Model ----
(***************************************************************************)
(* Model of the goa design validation pass (package design, validation)   *)
(* and of the codegen field mapper (package codegen, computeMapping).      *)
(*                                                                         *)
(* Attributes live in an arena indexed by 1..N; 0 stands for a nil         *)
(* pointer.  A diagnostic is one entry of dslengine.ValidationErrors.      *)
(* Strings that are inspected character by character (paths, route keys)   *)
(* are sequences of one-character strings.                                 *)
(***************************************************************************)
EXTENDS Integers, Sequences, FiniteSets, TLC

VARIABLES
    api,        \* the API description handed to APIDefinition.Validate
    validated,  \* package variable `validated`: set of marked attributes
    stack,      \* activation records of AttributeDefinition.Validate
    tasks,      \* what the running pass still has to do, in code order
    verr,       \* Errors of the ValidationErrors of the running pass
    pc,         \* "new", "idle", "run", "done", "panic", "overflow"
    pass,       \* number of passes started so far
    results,    \* value returned by each finished pass
    visits,     \* per attribute: how often its checks ran in this pass
    source,     \* computeMapping: the source object
    target,     \* computeMapping: the target object
    mapping,    \* computeMapping: what the call returned
    second,     \* computeMapping: a second call and what it returned
    mpc,        \* "ready" before the call of computeMapping, "done" after it,
                \* "again" after the second call
    str,        \* Goify: the string to make an identifier of
    firstUpper, \* Goify: whether the identifier starts in upper case
    goified,    \* Goify: what the call returned
    gpc,        \* "ready" before the call of Goify, "done" after it
    tsource,    \* GoTypeTransform: the source type
    ttarget,    \* GoTypeTransform: the target type
    transformed,   \* GoTypeTransform: what the call returned
    retransformed, \* GoTypeTransform: what a second call returned
    tpc,        \* "ready" before the call of GoTypeTransform, "done" after
                \* it, "again" after the second call
    cdata,      \* the ContextTemplateData c: its Params and its Routes
    pname,      \* the parameter name IsPathParam and MustValidate are asked about
    isPathParam,   \* what c.IsPathParam(param) returned
    mustValidate,  \* what c.MustValidate(param) returned
    ppc,        \* "ready", "asked" after IsPathParam, "done" after MustValidate
    wdata,      \* the ContextTemplateData handed to IterateResponses and Execute
    failing,    \* the templates and the responses whose template fails
    iterated,   \* the responses the iterator was called on, in order
    returned,   \* the error the call returned, "" for nil
    wpc,        \* "ready", "iterated" after IterateResponses, "executed"
                \* after Execute
    shared,     \* concurrent passes: the description both passes validate
    marked,     \* concurrent passes: the package variable `validated`
    passes,     \* concurrent passes: per pass its call stack, its
                \* ValidationErrors, the attributes whose checks it ran and
                \* those it found marked by the other pass
    crashed     \* concurrent passes: the runtime stopped the process

vvars == <<api, validated, stack, tasks, verr, pc, pass, results, visits>>

mvars == <<source, target, mapping, second, mpc>>

gvars == <<str, firstUpper, goified, gpc>>

tvars == <<tsource, ttarget, transformed, retransformed, tpc>>

pvars == <<cdata, pname, isPathParam, mustValidate, ppc>>

\* the variables of the code generation helpers
wvars == <<wdata, failing, iterated, returned, wpc>>

xvars == <<shared, marked, passes, crashed>>

cvars == <<mvars, gvars, tvars, pvars, wvars, xvars>>

\* all variables but those of computeMapping, all but those of Goify, all
\* but those of GoTypeTransform, all but those of ContextTemplateData
notm == <<vvars, gvars, tvars, pvars, wvars, xvars>>

notg == <<vvars, mvars, tvars, pvars, wvars, xvars>>

nott == <<vvars, mvars, gvars, pvars, wvars, xvars>>

notp == <<vvars, mvars, gvars, tvars, wvars, xvars>>

notw == <<vvars, mvars, gvars, tvars, pvars, xvars>>

notx == <<vvars, mvars, gvars, tvars, pvars, wvars>>

vars == <<vvars, cvars>>

(***************************************************************************)
(* Bounds                                                                  *)
(***************************************************************************)
NAtt == 3
MaxPasses == 2
MaxDepth == 8
MaxFields == 2
MaxStrLen == 4
MaxTypeDepth == 2
MaxRoutes == 2
MaxRouteParams == 2
MaxResponses == 2

(***************************************************************************)
(* Generic helpers                                                         *)
(***************************************************************************)
Range(s) == {s[i] : i \in DOMAIN s}

RECURSIVE SeqOfSet(_)
SeqOfSet(S) == IF S = {} THEN <<>>
               ELSE LET x == CHOOSE y \in S : TRUE IN <<x>> \o SeqOfSet(S \ {x})

RECURSIVE Flatten(_)
Flatten(ss) == IF ss = <<>> THEN <<>> ELSE Head(ss) \o Flatten(Tail(ss))

Count(s, x) == Cardinality({i \in DOMAIN s : s[i] = x})

SameBag(s, t) == \A x \in Range(s) \cup Range(t) : Count(s, x) = Count(t, x)

(***************************************************************************)
(* Attribute model                                                         *)
(***************************************************************************)
Names == {"a", "b"}

TNil       == [kind |-> "nil",    fields |-> <<>>, elem |-> 0, ref |-> 0]
TPrim      == [kind |-> "prim",   fields |-> <<>>, elem |-> 0, ref |-> 0]
TObject(f) == [kind |-> "object", fields |-> f,    elem |-> 0, ref |-> 0]
TArray(e)  == [kind |-> "array",  fields |-> <<>>, elem |-> e, ref |-> 0]
TUser(u)   == [kind |-> "user",   fields |-> <<>>, elem |-> 0, ref |-> u]
TMedia(m)  == [kind |-> "media",  fields |-> <<>>, elem |-> 0, ref |-> m]
THash      == [kind |-> "hash",   fields |-> <<>>, elem |-> 0, ref |-> 0]

\* an AttributeDefinition: Required is the list AllRequired returns
Att(t, req, view) == [Type |-> t, Required |-> req, View |-> view]

\* identity of a definition: its kind and its position in the description
Def(kind, i, j, k) == <<kind, i, j, k>>

NoDef == Def("none", 0, 0, 0)

\* dslengine.ValidationErrors.Add: one diagnostic, tagged with its definition
Diag(def, msg, args) == [def |-> def, msg |-> msg, args |-> args]

\* what a validation function does, in order: record a diagnostic, call
\* AttributeDefinition.Validate (onNil: what follows only if it returns nil),
\* or dereference a nil pointer
TDiag(def, msg, args) ==
    [op |-> "diag", d |-> Diag(def, msg, args), att |-> 0, ctx |-> <<>>,
     parent |-> NoDef, onNil |-> <<>>]

TAttr(att, ctx, parent) ==
    [op |-> "attr", d |-> Diag(NoDef, "", <<>>), att |-> att, ctx |-> ctx,
     parent |-> parent, onNil |-> <<>>]

TAttrThen(att, ctx, parent, onNil) ==
    [op |-> "attr", d |-> Diag(NoDef, "", <<>>), att |-> att, ctx |-> ctx,
     parent |-> parent, onNil |-> onNil]

TPanic == [op |-> "panic", d |-> Diag(NoDef, "", <<>>), att |-> 0, ctx |-> <<>>,
           parent |-> NoDef, onNil |-> <<>>]

When(c, ts) == IF c THEN ts ELSE <<>>

\* the type an attribute's Type resolves to: a user type or media type stands
\* for the type of its own definition
Underlying(a, t) ==
    IF t.kind = "user" THEN a.Atts[a.UTs[t.ref].att].Type
    ELSE IF t.kind = "media" THEN a.Atts[a.MTs[t.ref].att].Type
    ELSE t

\* DataType.Kind
Kind(a, t) == Underlying(a, t).kind

\* DataType.ToObject: nil unless the (underlying) type is an object
ToObject(a, t) ==
    [isNil |-> Kind(a, t) # "object", fields |-> Underlying(a, t).fields]

\* DataType.IsArray
IsArray(a, t) == Kind(a, t) = "array"

\* DataType.ToArray().ElemType
ElemType(a, t) == Underlying(a, t).elem

\* AttributeDefinition.AllRequired
AllRequired(a, id) == a.Atts[id].Required

(***************************************************************************)
(* Strings as sequences of characters                                      *)
(***************************************************************************)
\* strings.HasPrefix(s, prefix)
HasPrefix(s, prefix) ==
    /\ Len(prefix) <= Len(s)
    /\ SubSeq(s, 1, Len(prefix)) = prefix

\* strings.Contains(s, sub)
Contains(s, sub) ==
    \E i \in 0..(Len(s) - Len(sub)) : SubSeq(s, i + 1, i + Len(sub)) = sub

\* first index >= i that ends a path segment (a "/" or the end of the path)
RECURSIVE SegEnd(_, _)
SegEnd(p, i) == IF i > Len(p) \/ p[i] = "/" THEN i ELSE SegEnd(p, i + 1)

\* a wildcard starts at i: "/:" followed by a non-empty name
WildcardAt(p, i) ==
    /\ i + 1 <= Len(p)
    /\ p[i] = "/"
    /\ p[i + 1] = ":"
    /\ SegEnd(p, i + 2) > i + 2

\* ExtractWildcards: the wildcard names of a path, in order
RECURSIVE ExtractFrom(_, _)
ExtractFrom(p, i) ==
    IF i > Len(p) THEN <<>>
    ELSE IF WildcardAt(p, i)
         THEN <<SubSeq(p, i + 2, SegEnd(p, i + 2) - 1)>> \o ExtractFrom(p, SegEnd(p, i + 2))
         ELSE ExtractFrom(p, i + 1)

ExtractWildcards(p) == ExtractFrom(p, 1)

\* WildcardRegex.ReplaceAllLiteralString(path, "*"): every wildcard segment
\* becomes the placeholder
RECURSIVE ReplaceFrom(_, _)
ReplaceFrom(p, i) ==
    IF i > Len(p) THEN <<>>
    ELSE IF WildcardAt(p, i)
         THEN <<"/", "*">> \o ReplaceFrom(p, SegEnd(p, i + 2))
         ELSE <<p[i]>> \o ReplaceFrom(p, i + 1)

ReplaceWildcards(p) == ReplaceFrom(p, 1)

(***************************************************************************)
(* Paths of resources and routes                                           *)
(***************************************************************************)
\* ResourceDefinition.FullPath: API base path followed by the resource's
ResourceFullPath(a, r) == a.BasePath \o r.BasePath

\* RouteDefinition.FullPath: the resource's full path followed by the route's
RouteFullPath(a, r, ro) == ResourceFullPath(a, r) \o ro.Path

\* RouteDefinition.Params
RouteParams(a, r, ro) == ExtractWildcards(RouteFullPath(a, r, ro))

(***************************************************************************)
(* Route conflict detection                                                *)
(***************************************************************************)
\* origin of the wildcard v of a route (newRouteInfo, the loop body)
WildcardOrig(r, ro, v) ==
    IF Contains(ro.Path, v) THEN "route"
    ELSE IF Contains(r.BasePath, v) THEN "resource"
    ELSE "api"

\* newRouteInfo; ri, ai, oi locate the route: resource, action and route index
newRouteInfo(a, ri, ai, oi) ==
    LET r    == a.Resources[ri]
        ac   == r.Actions[ai]
        ro   == ac.Routes[oi]
        vs   == RouteParams(a, r, ro)
    IN  [Key       |-> ReplaceWildcards(RouteFullPath(a, r, ro)),
         Resource  |-> ri,
         Action    |-> ai,
         Route     |-> oi,
         FullPath  |-> RouteFullPath(a, r, ro),
         Wildcards |-> [i \in DOMAIN vs |->
                          [Name |-> vs[i], Orig |-> WildcardOrig(r, ro, vs[i])]]]

\* r.Wildcards[i] of DifferentWildcards; out of range is a run-time panic
OutOfRange(r, other) == Len(other.Wildcards) > Len(r.Wildcards)

\* routeInfo.DifferentWildcards, the loop from position i on
RECURSIVE DiffFrom(_, _, _)
DiffFrom(r, other, i) ==
    IF i > Len(other.Wildcards) THEN <<>>
    ELSE (IF r.Wildcards[i].Name # other.Wildcards[i].Name
          THEN <<<<r.Wildcards[i], other.Wildcards[i]>>>>
          ELSE <<>>) \o DiffFrom(r, other, i + 1)

\* the comparison that stops at the first position that differs
DifferentWildcards_First(r, other) ==
    IF DiffFrom(r, other, 1) = <<>> THEN <<>> ELSE <<Head(DiffFrom(r, other, 1))>>

\* routeInfo.DifferentWildcards
DifferentWildcards(r, other) == DiffFrom(r, other, 1)

(***************************************************************************)
(* Validation functions.  Each yields, in execution order, the diagnostics *)
(* it records, the AttributeDefinition.Validate calls it makes and the nil *)
(* dereferences it runs into.                                              *)
(***************************************************************************)
\* a one-character name as the string the path functions see
Chars(n) == <<n>>

FieldNames(f) == SeqOfSet(DOMAIN f)

\* ResponseDefinition.Validate
ResponseValidate(r, def) ==
    When(r.Headers # 0, <<TAttr(r.Headers, <<"response headers">>, def)>>)
    \o When(r.Status = 0, <<TDiag(def, "response status not defined", <<>>)>>)

\* UserTypeDefinition.Validate
UserTypeValidate(a, u, ctx, parent) ==
    When(a.UTs[u].TypeName = "",
         <<TDiag(parent, "User type must have a name", <<ctx>>)>>)
    \o <<TAttr(a.UTs[u].att, ctx, parent)>>

\* ActionDefinition.ValidateParams, the body of the loop over the parameters
ParamValidate(a, def, n, p) ==
    (IF n = "" THEN <<TDiag(def, "action has parameter with no name", <<>>)>>
     ELSE IF p = 0
          THEN <<TDiag(def, "definition of parameter cannot be nil", <<Chars(n)>>)>>
          ELSE When(a.Atts[p].Type.kind = "nil",
                    <<TDiag(def, "type of parameter cannot be nil", <<Chars(n)>>)>>))
    \o (IF p = 0 \/ a.Atts[p].Type.kind = "nil"
        THEN <<TPanic>>
        ELSE When(Kind(a, a.Atts[p].Type) = "object",
                  <<TDiag(def, "parameter cannot be an object", <<Chars(n)>>)>>)
             \o <<TAttr(p, <<"parameter", n>>, def)>>)

\* ActionDefinition.ValidateParams
ValidateParams(a, ri, ai) ==
    LET ac     == a.Resources[ri].Actions[ai]
        def    == Def("action", ri, ai, 0)
        ok     == a.Atts[ac.Params].Type.kind = "object"
        params == IF ok THEN a.Atts[ac.Params].Type.fields ELSE <<>>
        ns     == FieldNames(params)
    IN  IF ac.Params = 0 THEN <<>>
        ELSE When(~ok, <<TDiag(def, "Params field of action is not an object", <<>>)>>)
             \o Flatten([i \in DOMAIN ns |-> ParamValidate(a, def, ns[i], params[ns[i]])])
             \o Flatten([k \in DOMAIN ac.Responses |->
                           ResponseValidate(ac.Responses[k], Def("response", ri, ai, k))])

\* the test that also compares a response with itself
DuplicateStatus_SameIndex(rs, i, j) == rs[i].Status = rs[j].Status

\* i != j && r.Status == r2.Status
DuplicateStatus(rs, i, j) == i # j /\ rs[i].Status = rs[j].Status

\* ActionDefinition.Validate
ActionValidate(a, ri, ai) ==
    LET ac  == a.Resources[ri].Actions[ai]
        def == Def("action", ri, ai, 0)
        rs  == ac.Responses
    IN  When(ac.Name = "", <<TDiag(def, "Action name cannot be empty", <<>>)>>)
        \o When(ac.Routes = <<>>, <<TDiag(def, "No route defined for action", <<>>)>>)
        \o Flatten([i \in DOMAIN rs |->
              Flatten([j \in DOMAIN rs |->
                 When(DuplicateStatus(rs, i, j),
                      <<TDiag(Def("response", ri, ai, i),
                              "Multiple response definitions with status code",
                              <<<<ToString(rs[i].Status)>>>>)>>)])
              \o ResponseValidate(rs[i], Def("response", ri, ai, i))])
        \o ValidateParams(a, ri, ai)
        \o When(ac.Payload # 0, UserTypeValidate(a, ac.Payload, <<"action payload">>, def))
        \o When(~ac.HasParent, <<TDiag(def, "missing parent resource", <<>>)>>)

\* ResourceDefinition.validateActions
validateActions(a, ri) ==
    LET r     == a.Resources[ri]
        found == \E ai \in DOMAIN r.Actions : r.Actions[ai].Name = r.CanonicalActionName
    IN  Flatten([ai \in DOMAIN r.Actions |-> ActionValidate(a, ri, ai)])
        \o When(r.CanonicalActionName # "" /\ ~found,
                <<TDiag(Def("resource", ri, 0, 0), "unknown canonical action",
                        <<<<r.CanonicalActionName>>>>)>>)

\* ResourceDefinition.validateBaseParams
validateBaseParams(a, ri) ==
    LET r    == a.Resources[ri]
        def  == Def("resource", ri, 0, 0)
        t    == a.Atts[r.BaseParams].Type
        vs   == ExtractWildcards(r.BasePath)
    IN  IF t.kind # "object"
        THEN <<TDiag(def, "invalid type for BaseParams, must be an Object", <<>>)>>
        ELSE IF Len(vs) > 0
             THEN When(Len(vs) # Cardinality(DOMAIN t.fields),
                       <<TDiag(def, "BasePath defines parameters but BaseParams has other count", vs)>>)
                  \o Flatten([i \in DOMAIN vs |->
                        When(~\E n \in DOMAIN t.fields : Chars(n) = vs[i],
                             <<TDiag(def, "Variable from base path does not match any parameter from BaseParams",
                                     <<vs[i]>>)>>)])
             ELSE When(Cardinality(DOMAIN t.fields) > 0,
                       <<TDiag(def, "BasePath does not use variables defined in BaseParams", <<>>)>>)

\* ResourceDefinition.CanonicalAction is nil
NoCanonicalAction(r) ==
    LET name == IF r.CanonicalActionName = "" THEN "show" ELSE r.CanonicalActionName
    IN  ~\E ai \in DOMAIN r.Actions : r.Actions[ai].Name = name

\* ResourceDefinition.validateParent
validateParent(a, ri) ==
    LET r   == a.Resources[ri]
        def == Def("resource", ri, 0, 0)
        ps  == {pi \in DOMAIN a.Resources : a.Resources[pi].Name = r.ParentName}
    IN  IF ps = {}
        THEN <<TDiag(def, "Parent resource not found", <<<<r.ParentName>>>>)>>
        ELSE When(NoCanonicalAction(a.Resources[CHOOSE pi \in ps : TRUE]),
                  <<TDiag(def, "Parent resource has no canonical action", <<<<r.ParentName>>>>)>>)

\* ResourceDefinition.Validate
ResourceValidate(a, ri) ==
    LET r   == a.Resources[ri]
        def == Def("resource", ri, 0, 0)
    IN  When(r.Name = "", <<TDiag(def, "Resource name cannot be empty", <<>>)>>)
        \o validateActions(a, ri)
        \o When(r.BaseParams # 0, validateBaseParams(a, ri))
        \o When(r.ParentName # "", validateParent(a, ri))
        \o Flatten([k \in DOMAIN r.Responses |->
                      ResponseValidate(r.Responses[k], Def("response", ri, 0, k))])
        \o When(r.Params # 0, <<TAttr(r.Params, <<"resource parameters">>, def)>>)

\* EncodingDefinition.Validate
EncodingValidate(enc, def) ==
    IF enc.MIMETypes = <<>>
    THEN <<TDiag(def, "missing MIME type", <<>>)>>
    ELSE Flatten([i \in DOMAIN enc.MIMETypes |->
            When(~enc.MIMETypes[i].valid,
                 <<TDiag(def, "invalid MIME type", <<<<ToString(i)>>>>)>>)])
         \o (IF enc.PackagePath # ""
             THEN When(enc.PackagePath = "absent",
                       <<TDiag(def, "invalid Go package path", <<>>)>>)
             ELSE Flatten([i \in DOMAIN enc.MIMETypes |->
                     When(~enc.MIMETypes[i].known,
                          <<TDiag(def, "Encoders not known for all MIME types", <<>>)>>)]))
         \o When(enc.Function # "" /\ enc.PackagePath = "",
                 <<TDiag(def, "Must specify encoder package page with PackagePath", <<>>)>>)

\* ViewDefinition.Validate
ViewValidate(a, m, k) ==
    LET v == a.MTs[m].Views[k]
    IN  When(~v.HasParent,
             <<TDiag(Def("view", m, k, 0), "View must have a parent media type", <<>>)>>)
        \o <<TAttr(v.att, <<>>, Def("view", m, k, 0))>>

HasView(mt, name) == \E k \in DOMAIN mt.Views : mt.Views[k].Name = name

\* LinkDefinition.Validate; the parent of the link is the media type m
LinkValidate(a, m, k) ==
    LET l   == a.MTs[m].Links[k]
        def == Def("link", m, k, 0)
        o   == ToObject(a, a.Atts[a.MTs[m].att].Type)
    IN  When(l.Name = "", <<TDiag(def, "Links must have a name", <<>>)>>)
        \o (IF ~l.HasParent
            THEN <<TDiag(def, "Link must have a parent media type", <<>>), TPanic>>
            ELSE When(o.isNil, <<TDiag(def, "Link parent media type must be an Object", <<>>)>>)
                 \o (IF o.isNil \/ l.Name \notin DOMAIN o.fields
                     THEN <<TDiag(def, "Link name must match one of the parent media type attribute names", <<>>)>>
                     ELSE IF o.fields[l.Name] = 0
                          THEN <<TPanic>>
                          ELSE IF a.Atts[o.fields[l.Name]].Type.kind # "media"
                               THEN <<TDiag(def, "attribute type must be a media type", <<>>)>>
                               ELSE When(~HasView(a.MTs[a.Atts[o.fields[l.Name]].Type.ref], l.View),
                                         <<TDiag(def, "view does not exist on target media type",
                                                 <<<<l.View>>>>)>>)))

\* MediaTypeDefinition.Validate, the body of the loop over the object's fields
MediaTypeField(a, m, n, att) ==
    LET def == Def("media", m, 0, 0)
    IN  <<TAttr(att, <<"attribute", n>>, def)>>
        \o (IF att = 0 THEN <<TPanic>>
            ELSE When(a.Atts[att].View # "",
                      IF a.Atts[att].Type.kind # "media"
                      THEN <<TDiag(def, "attribute defines a view for rendering but its type is not MediaTypeDefinition",
                                   <<Chars(n)>>),
                             TPanic>>
                      ELSE When(~HasView(a.MTs[a.Atts[att].Type.ref], a.Atts[att].View),
                                <<TDiag(def, "attribute of media type uses unknown view",
                                        <<Chars(n), <<a.Atts[att].View>>>>)>>)))

MediaTypeFields(a, m, f) ==
    LET ns == FieldNames(f)
    IN  Flatten([i \in DOMAIN ns |-> MediaTypeField(a, m, ns[i], f[ns[i]])])

\* MediaTypeDefinition.Validate
MediaTypeValidate(a, m) ==
    LET mt   == a.MTs[m]
        def  == Def("media", m, 0, 0)
        t    == IF a.Atts[mt.att].Type.kind = "nil" THEN TPrim ELSE a.Atts[mt.att].Type
        el   == ElemType(a, t)
        hasDefaultView == HasView(mt, "default")
    IN  When(mt.TypeName = "", <<TDiag(def, "User type must have a name", <<<<>>>>)>>)
        \o <<TAttr(mt.att, <<>>, def)>>
        \o (IF IsArray(a, t)
            THEN IF el = 0
                 THEN <<TDiag(def, "array element type is nil", <<>>)>>
                 ELSE <<TAttrThen(el, <<"array element">>, def,
                          IF a.Atts[el].Type.kind = "nil" THEN <<TPanic>>
                          ELSE IF a.Atts[el].Type.kind # "media"
                               THEN <<TDiag(def, "collection media type array element type must be a media type", <<>>)>>
                               ELSE When(~ToObject(a, a.Atts[el].Type).isNil,
                                         MediaTypeFields(a, m, ToObject(a, a.Atts[el].Type).fields)))>>
            ELSE When(~ToObject(a, t).isNil, MediaTypeFields(a, m, ToObject(a, t).fields)))
        \o When(~IsArray(a, t),
                Flatten([k \in DOMAIN mt.Views |-> ViewValidate(a, m, k)])
                \o When(~hasDefaultView,
                        <<TDiag(def, "media type does not define the default view", <<>>)>>))
        \o Flatten([k \in DOMAIN mt.Links |-> LinkValidate(a, m, k)])

(***************************************************************************)
(* APIDefinition.Validate                                                  *)
(***************************************************************************)
\* the routes of the API in the order the pass collects them
RouteIndex(a) ==
    Flatten([ri \in DOMAIN a.Resources |->
       Flatten([ai \in DOMAIN a.Resources[ri].Actions |->
          [oi \in DOMAIN a.Resources[ri].Actions[ai].Routes |-> <<ri, ai, oi>>]])])

allRoutes(a) ==
    LET ix == RouteIndex(a)
    IN  [i \in DOMAIN ix |-> newRouteInfo(a, ix[i][1], ix[i][2], ix[i][3])]

\* the list of conflicting wildcards of one diagnostic
RECURSIVE Conflicts(_)
Conflicts(diffs) ==
    IF diffs = <<>> THEN <<>>
    ELSE <<Head(diffs)[1].Name, <<Head(diffs)[1].Orig>>,
           Head(diffs)[2].Name, <<Head(diffs)[2].Orig>>>> \o Conflicts(Tail(diffs))

\* the diagnostic of one conflict
ConflictDiag(a, route, other) ==
    TDiag(Def("action", route.Resource, route.Action, 0), "route conflicts with route",
          <<route.FullPath, other.FullPath,
            <<a.Resources[other.Resource].Name>>,
            <<a.Resources[other.Resource].Actions[other.Action].Name>>>>
          \o Conflicts(DifferentWildcards(route, other)))

\* the scan that compares two routes whether or not their keys are related
ScanPair_NoPrefix(a, all, i, j) ==
    IF i = j THEN <<>>
    ELSE IF OutOfRange(all[i], all[j]) THEN <<TPanic>>
         ELSE When(Len(DifferentWildcards(all[i], all[j])) > 0,
                   <<ConflictDiag(a, all[i], all[j])>>)

\* APIDefinition.Validate, the body of the scan over the pairs of routes
ScanPair(a, all, i, j) ==
    IF i = j THEN <<>>
    ELSE IF HasPrefix(all[i].Key, all[j].Key)
         THEN IF OutOfRange(all[i], all[j]) THEN <<TPanic>>
              ELSE When(Len(DifferentWildcards(all[i], all[j])) > 0,
                        <<ConflictDiag(a, all[i], all[j])>>)
         ELSE <<>>

\* APIDefinition.Validate, the scan over all pairs of routes
ConflictScan(a) ==
    LET all == allRoutes(a)
    IN  Flatten([i \in DOMAIN all |->
           Flatten([j \in DOMAIN all |-> ScanPair(a, all, i, j)])])

\* the check that compares the two lists of wildcards position by position
DuplicateWildcards_SamePosition(a, ri, ai, oi) ==
    LET r    == a.Resources[ri]
        ac   == r.Actions[ai]
        rwcs == ExtractWildcards(ResourceFullPath(a, r))
        wcs  == ExtractWildcards(ac.Routes[oi].Path)
    IN  IF ~ac.HasParent THEN <<TPanic>>
        ELSE Flatten([i \in DOMAIN rwcs |->
                When(i \in DOMAIN wcs /\ rwcs[i] = wcs[i],
                     <<TDiag(Def("action", ri, ai, 0), "duplicate wildcard in resource base path and action route",
                             <<wcs[i], ResourceFullPath(a, r), ac.Routes[oi].Path>>)>>)])

\* APIDefinition.Validate, the body of the loop over the routes of an action
DuplicateWildcards(a, ri, ai, oi) ==
    LET r    == a.Resources[ri]
        ac   == r.Actions[ai]
        rwcs == ExtractWildcards(ResourceFullPath(a, r))
        wcs  == ExtractWildcards(ac.Routes[oi].Path)
    IN  IF ~ac.HasParent THEN <<TPanic>>
        ELSE Flatten([i \in DOMAIN rwcs |->
                Flatten([j \in DOMAIN wcs |->
                   When(rwcs[i] = wcs[j],
                        <<TDiag(Def("action", ri, ai, 0), "duplicate wildcard in resource base path and action route",
                                <<wcs[j], ResourceFullPath(a, r), ac.Routes[oi].Path>>)>>)])])

\* APIDefinition.Validate, the body of the loop over the resources
ResourceStep(a, ri) ==
    LET r == a.Resources[ri]
    IN  ResourceValidate(a, ri)
        \o Flatten([ai \in DOMAIN r.Actions |->
              When(r.Actions[ai].DocsBad,
                   <<TDiag(Def("action", ri, ai, 0), "invalid action docs URL value", <<>>)>>)
              \o Flatten([oi \in DOMAIN r.Actions[ai].Routes |->
                    DuplicateWildcards(a, ri, ai, oi)])])

\* validateContact, validateLicense, validateDocs
validateURLs(a) ==
    When("contact" \in a.BadURL, <<TDiag(Def("api", 0, 0, 0), "invalid contact URL value", <<>>)>>)
    \o When("license" \in a.BadURL, <<TDiag(Def("api", 0, 0, 0), "invalid license URL value", <<>>)>>)
    \o When("docs" \in a.BadURL, <<TDiag(Def("api", 0, 0, 0), "invalid docs URL value", <<>>)>>)

\* APIDefinition.Validate up to its return statement
APIValidateBody(a) ==
    When(a.BaseParams # 0, <<TAttr(a.BaseParams, <<"base parameters">>, Def("api", 0, 0, 0))>>)
    \o validateURLs(a)
    \o Flatten([ri \in DOMAIN a.Resources |-> ResourceStep(a, ri)])
    \o ConflictScan(a)
    \o Flatten([m \in DOMAIN a.MediaTypes |-> MediaTypeValidate(a, a.MediaTypes[m])])
    \o Flatten([u \in DOMAIN a.Types |->
                  UserTypeValidate(a, a.Types[u], <<>>, Def("api", 0, 0, 0))])
    \o Flatten([k \in DOMAIN a.Responses |->
                  ResponseValidate(a.Responses[k], Def("response", 0, 0, k))])
    \o Flatten([k \in DOMAIN a.Consumes |->
                  EncodingValidate(a.Consumes[k], Def("encoding", 1, k, 0))])
    \o Flatten([k \in DOMAIN a.Produces |->
                  EncodingValidate(a.Produces[k], Def("encoding", 2, k, 0))])

\* ValidationErrors.AsError: nil when there is no diagnostic
AsError(errs) == [isNil |-> errs = <<>>, Errors |-> errs]

\* the return that hands out the aggregate as it is
APIValidateResult_Aggregate(errs) == [isNil |-> FALSE, Errors |-> errs]

\* the value APIDefinition.Validate returns
APIValidateResult(errs) ==
    IF AsError(errs).isNil THEN [isNil |-> TRUE, Errors |-> <<>>] ELSE AsError(errs)

(***************************************************************************)
(* AttributeDefinition.Validate                                            *)
(***************************************************************************)
\* the marker lookup that never finds an attribute
IsValidated_Never(v, att) == FALSE

\* validated[a]
IsValidated(v, att) == att \in v

\* the loop that stops at the first required name that matches no field
RequiredDiags_FirstOnly(req, f, ctx, parent) ==
    LET missing == SelectSeq(req, LAMBDA n : n \notin DOMAIN f)
    IN  When(missing # <<>>,
             <<Diag(parent, "required field does not exist", <<ctx, Chars(Head(missing))>>)>>)

\* the diagnostics of the required names that match no field
RECURSIVE RequiredDiags(_, _, _, _)
RequiredDiags(req, f, ctx, parent) ==
    IF req = <<>> THEN <<>>
    ELSE When(Head(req) \notin DOMAIN f,
              <<Diag(parent, "required field does not exist", <<ctx, Chars(Head(req))>>)>>)
         \o RequiredDiags(Tail(req), f, ctx, parent)

\* the calls of a body that does not descend into arrays
Children_FieldsOnly(a, att, ctx) ==
    LET o == ToObject(a, a.Atts[att].Type)
    IN  IF ~o.isNil THEN {<<<<"field", n>>, o.fields[n]>> : n \in DOMAIN o.fields}
        ELSE {}

\* the calls the body makes: one per object field, or one for the element of
\* an array; each is a pair <<ctx, attribute>>
Children(a, att, ctx) ==
    LET t == a.Atts[att].Type
        o == ToObject(a, t)
    IN  IF ~o.isNil THEN {<<<<"field", n>>, o.fields[n]>> : n \in DOMAIN o.fields}
        ELSE IF IsArray(a, t) THEN {<<ctx, ElemType(a, t)>>}
        ELSE {}

\* the diagnostics the body records itself
OwnDiags(a, att, ctx, parent) ==
    LET t == a.Atts[att].Type
        o == ToObject(a, t)
    IN  IF t.kind = "nil" THEN <<Diag(parent, "attribute type is nil", <<>>)>>
        ELSE IF ~o.isNil THEN RequiredDiags(AllRequired(a, att), o.fields, ctx, parent)
        ELSE <<>>

Frame(att, todo, base, onNil) ==
    [att |-> att, todo |-> todo, base |-> base, onNil |-> onNil]

\* entry of AttributeDefinition.Validate(ctx, parent) on attribute att, called
\* with the stack st and the task list tk of the caller
Enter(att, ctx, parent, onNil, st, tk) ==
    IF att # 0 /\ IsValidated(validated, att)
    THEN \* already validated: return nil
         /\ stack' = st
         /\ tasks' = onNil \o tk
         /\ UNCHANGED <<validated, verr, pc, visits>>
    ELSE IF att = 0
    THEN \* nil receiver: the marker lookup succeeds, a.Type dereferences nil
         /\ validated' = validated \cup {0}
         /\ IF IsValidated(validated, 0)
            THEN /\ stack' = st
                 /\ tasks' = onNil \o tk
                 /\ pc' = pc
            ELSE /\ pc' = "panic"
                 /\ UNCHANGED <<stack, tasks>>
         /\ UNCHANGED <<verr, visits>>
    ELSE /\ validated' = validated \cup {att}
         /\ visits' = [visits EXCEPT ![att] = @ + 1]
         /\ verr' = verr \o OwnDiags(api, att, ctx, parent)
         /\ IF api.Atts[att].Type.kind = "nil"
            THEN \* return verr
                 /\ stack' = st
                 /\ tasks' = tk
                 /\ pc' = pc
            ELSE IF Len(st) >= MaxDepth
            THEN \* the recursion exhausts the stack
                 /\ pc' = "overflow"
                 /\ UNCHANGED <<stack, tasks>>
            ELSE /\ stack' = <<Frame(att, Children(api, att, ctx), Len(verr), onNil)>> \o st
                 /\ tasks' = tk
                 /\ pc' = pc

\* a validation function calls AttributeDefinition.Validate
ValidateCall ==
    /\ pc = "run"
    /\ stack = <<>>
    /\ tasks # <<>>
    /\ Head(tasks).op = "attr"
    /\ Enter(Head(tasks).att, Head(tasks).ctx, Head(tasks).parent,
             Head(tasks).onNil, stack, Tail(tasks))
    /\ UNCHANGED <<api, pass, results>>
    /\ UNCHANGED cvars

\* AttributeDefinition.Validate calls itself on a field or on the element
ValidateChild ==
    /\ pc = "run"
    /\ stack # <<>>
    /\ \E c \in Head(stack).todo :
          Enter(c[2], c[1], Def("attribute", Head(stack).att, 0, 0), <<>>,
                <<[Head(stack) EXCEPT !.todo = @ \ {c}]>> \o Tail(stack), tasks)
    /\ UNCHANGED <<api, pass, results>>
    /\ UNCHANGED cvars

\* AttributeDefinition.Validate returns verr.AsError()
ValidateReturn ==
    /\ pc = "run"
    /\ stack # <<>>
    /\ Head(stack).todo = {}
    /\ stack' = Tail(stack)
    /\ tasks' = IF Len(verr) = Head(stack).base THEN Head(stack).onNil \o tasks ELSE tasks
    /\ UNCHANGED <<api, validated, verr, pc, pass, results, visits>>
    /\ UNCHANGED cvars

(***************************************************************************)
(* The validation pass                                                     *)
(***************************************************************************)
\* APIDefinition.Validate is called
APIValidate ==
    /\ pc \in {"idle", "done"}
    /\ pass < MaxPasses
    /\ pass' = pass + 1
    /\ pc' = "run"
    /\ tasks' = APIValidateBody(api)
    /\ verr' = <<>>
    /\ stack' = <<>>
    /\ visits' = [i \in DOMAIN api.Atts |-> 0]
    /\ UNCHANGED <<api, validated, results>>
    /\ UNCHANGED cvars

\* verr.Add
AddDiag ==
    /\ pc = "run"
    /\ stack = <<>>
    /\ tasks # <<>>
    /\ Head(tasks).op = "diag"
    /\ verr' = Append(verr, Head(tasks).d)
    /\ tasks' = Tail(tasks)
    /\ UNCHANGED <<api, validated, stack, pc, pass, results, visits>>
    /\ UNCHANGED cvars

\* a nil pointer is dereferenced: the pass aborts
NilDereference ==
    /\ pc = "run"
    /\ stack = <<>>
    /\ tasks # <<>>
    /\ Head(tasks).op = "panic"
    /\ pc' = "panic"
    /\ UNCHANGED <<api, validated, stack, tasks, verr, pass, results, visits>>
    /\ UNCHANGED cvars

\* APIDefinition.Validate returns
APIReturn ==
    /\ pc = "run"
    /\ stack = <<>>
    /\ tasks = <<>>
    /\ results' = Append(results, APIValidateResult(verr))
    /\ pc' = "done"
    /\ UNCHANGED <<api, validated, stack, tasks, verr, pass, visits>>
    /\ UNCHANGED cvars

(***************************************************************************)
(* API descriptions the pass is run on                                     *)
(***************************************************************************)
Succ(i) == IF i < NAtt THEN i + 1 ELSE i

Obj1(x) == TObject([n \in {"a"} |-> x])

Obj2(x, y) == TObject([n \in {"a", "b"} |-> IF n = "a" THEN x ELSE y])

\* the shapes attribute i of the graph takes: absent type, primitive, array,
\* object with one or two fields (also with required names that match no field
\* and with one that does), reference to the user type defined by attribute 1
GraphAtts(i) ==
    {Att(TNil, <<>>, ""), Att(TPrim, <<>>, ""),
     Att(TArray(1), <<>>, ""), Att(TArray(Succ(i)), <<>>, ""),
     Att(Obj1(1), <<>>, ""), Att(Obj1(Succ(i)), <<>>, ""),
     Att(Obj1(Succ(i)), <<"a", "b", "c">>, ""),
     Att(Obj2(Succ(i), 1), <<>>, ""),
     Att(Obj2(Succ(i), Succ(Succ(i))), <<"b">>, "")}
    \cup (IF i = 1 THEN {} ELSE {Att(TUser(1), <<>>, "")})

Graphs == {g \in [1..NAtt -> UNION {GraphAtts(i) : i \in 1..NAtt}] :
              \A i \in 1..NAtt : g[i] \in GraphAtts(i)}

PlainGraph == [i \in 1..NAtt |-> IF i = 1 THEN Att(Obj1(Succ(1)), <<>>, "")
                                 ELSE Att(TPrim, <<>>, "")]

\* attributes next to the graph: the action's Params object and its one
\* parameter, the media type's definition, its field, its default view
ParamsAtt == NAtt + 1
ParamAtt  == NAtt + 2
MediaAtt  == NAtt + 3
FieldAtt  == NAtt + 4
ViewAtt   == NAtt + 5

Arena(g, param) ==
    g \o <<Att(TObject([n \in {"x"} |-> param]), <<>>, ""),
           Att(TPrim, <<>>, ""),
           Att(Obj1(FieldAtt), <<>>, ""),
           Att(TPrim, <<>>, ""),
           Att(Obj1(FieldAtt), <<>>, "")>>

Route(path) == [Path |-> path]

Response(status) == [Status |-> status, Headers |-> 0]

Action(name, routes) ==
    [Name |-> name, HasParent |-> TRUE, DocsBad |-> FALSE, Routes |-> routes,
     Responses |-> <<Response(200)>>, Params |-> ParamsAtt, Payload |-> 1]

Resource(name, basePath, actions) ==
    [Name |-> name, BasePath |-> basePath, CanonicalActionName |-> "",
     ParentName |-> "", BaseParams |-> 0, Params |-> 0, Responses |-> <<>>,
     Actions |-> actions]

Encoding(mimes) == [MIMETypes |-> mimes, PackagePath |-> "", Function |-> ""]

JSON == [valid |-> TRUE, known |-> TRUE]

MediaType(views) ==
    [att |-> MediaAtt, TypeName |-> "M", Views |-> views, Links |-> <<>>]

DefaultView == [Name |-> "default", att |-> ViewAtt, HasParent |-> TRUE]

\* a consistent description: validation records nothing
BaseAPI ==
    [Atts       |-> Arena(PlainGraph, ParamAtt),
     UTs        |-> <<[att |-> 1, TypeName |-> "T"]>>,
     MTs        |-> <<MediaType(<<DefaultView>>)>>,
     BasePath   |-> <<>>,
     BaseParams |-> 0,
     BadURL     |-> {},
     Resources  |-> <<Resource("r", <<"/", "w">>,
                               <<Action("show", <<Route(<<"/", ":", "x">>)>>)>>)>>,
     MediaTypes |-> <<1>>,
     Types      |-> <<1>>,
     Responses  |-> <<Response(200)>>,
     Consumes   |-> <<Encoding(<<JSON>>)>>,
     Produces   |-> <<Encoding(<<JSON>>)>>]

\* the attributes attribute i of graph g points to: the fields of its object
\* (of the object of the user type, defined by attribute 1) and the element of
\* its array
GraphEdges(g, i) ==
    LET t == g[i].Type
        u == IF t.kind = "user" THEN g[1].Type ELSE t
    IN  IF u.kind = "object" THEN {u.fields[n] : n \in DOMAIN u.fields}
        ELSE IF u.kind = "array" THEN {u.elem}
        ELSE {}

RECURSIVE GraphClosure(_, _)
GraphClosure(g, S) ==
    LET T == S \cup UNION {GraphEdges(g, i) : i \in S}
    IN  IF T = S THEN S ELSE GraphClosure(g, T)

\* a description holds the attributes its definitions point to and no others:
\* an attribute of the graph that no pointer leads to from the roots (the user
\* type and payload 1, the base parameters b) is a placeholder
Connected(g, b) ==
    \A i \in (1..NAtt) \ GraphClosure(g, {1} \cup ({b} \ {0})) :
       g[i] = Att(TPrim, <<>>, "")

\* descriptions that differ in the attribute graph
GraphAPIs ==
    {[BaseAPI EXCEPT !.Atts = Arena(x[1], ParamAtt), !.BaseParams = x[2]] :
        x \in {y \in Graphs \X {0, 2} : Connected(y[1], y[2])}}

\* the defects a description may have, one per kind of definition
Defects == {"url", "resource", "action", "status", "media", "type", "response",
            "encoding", "attribute", "nilparam"}

WithDefects(D) ==
    [BaseAPI EXCEPT
       !.Atts = Arena([PlainGraph EXCEPT ![2] =
                          IF "attribute" \in D THEN Att(TNil, <<>>, "") ELSE @],
                      IF "nilparam" \in D THEN 0 ELSE ParamAtt),
       !.BadURL = IF "url" \in D THEN {"docs"} ELSE {},
       !.Resources[1].Name = IF "resource" \in D THEN "" ELSE @,
       !.Resources[1].Actions[1].Name = IF "action" \in D THEN "" ELSE @,
       !.Resources[1].Actions[1].Responses =
            IF "status" \in D THEN <<Response(200), Response(200)>> ELSE @,
       !.MTs[1].Views = IF "media" \in D THEN <<>> ELSE @,
       !.UTs[1].TypeName = IF "type" \in D THEN "" ELSE @,
       !.Responses = IF "response" \in D THEN <<Response(0)>> ELSE @,
       !.Consumes = IF "encoding" \in D THEN <<Encoding(<<>>)>> ELSE @]

DefectAPIs == {WithDefects(D) : D \in SUBSET Defects}

\* descriptions that differ in the paths of two routes of two resources
BasePaths == {<<"/", "w">>, <<"/", "w", "/", ":", "x">>}

RoutePaths ==
    {<<>>, <<"/", ":", "x">>, <<"/", ":", "y">>, <<"/", "i">>,
     <<"/", ":", "x", "/", "i">>, <<"/", ":", "y", "/", "i">>,
     <<"/", ":", "x", "/", ":", "y">>, <<"/", ":", "y", "/", ":", "x">>,
     <<"/", "i", "x">>, <<"/", "*">>}

WithRoutes(ab, b1, b2, p1, p2) ==
    [BaseAPI EXCEPT
       !.BasePath = ab,
       !.Resources = <<Resource("r", b1, <<Action("show", <<Route(p1)>>)>>),
                       Resource("s", b2, <<Action("list", <<Route(p2)>>)>>)>>]

\* descriptions with a structurally absent piece: the parameter "x" without
\* Attribute, the parameter "x" whose Attribute has no Type, the payload field
\* that is an array without element Attribute
AbsentAPIs ==
    {[BaseAPI EXCEPT !.Atts = Arena(PlainGraph, 0)],
     [BaseAPI EXCEPT !.Atts = Arena([PlainGraph EXCEPT ![2] = Att(TNil, <<>>, "")], 2)],
     [BaseAPI EXCEPT !.Atts = Arena([PlainGraph EXCEPT ![2] = Att(TArray(0), <<>>, "")],
                                    ParamAtt)]}

\* descriptions that differ in the responses and the routes of the one action
ActionAPIs ==
    {[BaseAPI EXCEPT !.Resources[1].Actions[1].Responses =
                        [k \in DOMAIN st |-> Response(st[k])],
                     !.Resources[1].Actions[1].Routes = ro] :
        st \in {<<>>, <<200>>, <<200, 200>>, <<200, 404>>, <<200, 404, 200>>},
        ro \in {<<>>, <<Route(<<"/", ":", "x">>)>>}}

\* descriptions whose media type field carries a View name: a primitive
\* field, a field of the media type itself with a view it has, and with a
\* view it does not have
ViewAPIs ==
    {[BaseAPI EXCEPT !.Atts[FieldAtt] = f] :
        f \in {Att(TPrim, <<>>, "default"), Att(TMedia(1), <<>>, "default"),
               Att(TMedia(1), <<>>, "tiny")}}

RouteAPIs ==
    {WithRoutes(ab, b1, b2, p1, p2) :
        ab \in {<<>>, <<"/", ":", "v">>}, b1 \in BasePaths,
        b2 \in BasePaths \cup {<<"/", "w", "i">>},
        p1 \in RoutePaths, p2 \in RoutePaths}

(***************************************************************************)
(* computeMapping (package codegen)                                        *)
(***************************************************************************)
\* a field of an object: has tells whether its metadata holds the key
\* "transform:key", keys is the list of values stored under it
Field(has, keys) == [has |-> has, keys |-> keys]

EmptyMap == [k \in {} |-> ""]

\* the map key that takes the last value of the metadata
MapKey_Last(name, att) == IF att.has THEN att.keys[Len(att.keys)] ELSE name

\* the map key of an attribute: keys[0] if the metadata is present, else the
\* attribute name
MapKey(name, att) == IF att.has THEN att.keys[1] ELSE name

\* the return that drops the error
MappingError_Dropped(side, name) ==
    [ok |-> TRUE, isNil |-> FALSE, mapping |-> EmptyMap, err |-> <<side, name>>]

\* return nil, fmt.Errorf(...)
MappingError(side, name) ==
    [ok |-> FALSE, isNil |-> TRUE, mapping |-> EmptyMap, err |-> <<side, name>>]

\* one of the first two loops of computeMapping: the object's fields are
\* visited in the given order, acc is the map built so far
RECURSIVE KeyMap(_, _, _)
KeyMap(obj, order, acc) ==
    IF order = <<>> THEN [ok |-> TRUE, name |-> "", map |-> acc]
    ELSE LET name == Head(order)
             att  == obj[name]
         IN  IF att.has /\ Len(att.keys) = 0
             THEN [ok |-> FALSE, name |-> name, map |-> acc]
             ELSE KeyMap(obj, Tail(order),
                         [k \in DOMAIN acc \cup {MapKey(name, att)} |->
                            IF k = MapKey(name, att) THEN name ELSE acc[k]])

\* the loop that returns at the first match
RECURSIVE JoinMaps_FirstMatch(_, _, _, _)
JoinMaps_FirstMatch(sm, tm, keys, acc) ==
    IF keys = <<>> THEN acc
    ELSE LET key == Head(keys)
         IN  IF key \in DOMAIN tm
             THEN [n \in DOMAIN acc \cup {sm[key]} |->
                     IF n = sm[key] THEN tm[key] ELSE acc[n]]
             ELSE JoinMaps_FirstMatch(sm, tm, Tail(keys), acc)

\* the loop that looks the name of the source field up in targetMap
RECURSIVE JoinMaps_ByName(_, _, _, _)
JoinMaps_ByName(sm, tm, keys, acc) ==
    IF keys = <<>> THEN acc
    ELSE LET key == Head(keys)
         IN  JoinMaps_ByName(sm, tm, Tail(keys),
                             IF sm[key] \in DOMAIN tm
                             THEN [n \in DOMAIN acc \cup {sm[key]} |->
                                     IF n = sm[key] THEN tm[sm[key]] ELSE acc[n]]
                             ELSE acc)

\* the third loop of computeMapping: the keys of sourceMap are visited in
\* the order keys, acc is the attributeMap built so far
RECURSIVE JoinMaps(_, _, _, _)
JoinMaps(sm, tm, keys, acc) ==
    IF keys = <<>> THEN acc
    ELSE LET key == Head(keys)
         IN  JoinMaps(sm, tm, Tail(keys),
                      IF key \in DOMAIN tm
                      THEN [n \in DOMAIN acc \cup {sm[key]} |->
                              IF n = sm[key] THEN tm[key] ELSE acc[n]]
                      ELSE acc)

\* the orders a range loop may visit the keys S in
Orders(S) == {o \in [1..Cardinality(S) -> S] : Range(o) = S}

\* the names of fields and the values of the metadata
FieldNamePool == {"id", "uid", "n"}

\* computeMapping once the first two loops have built sourceMap and targetMap:
\* an error of the first loop, else one of the second, else the third loop,
\* which visits the keys of sourceMap in the order jo of all keys
MappingOf(sm, tm, jo) ==
    IF ~sm.ok THEN MappingError("source", sm.name)
    ELSE IF ~tm.ok THEN MappingError("target", tm.name)
    ELSE [ok |-> TRUE, isNil |-> FALSE,
          mapping |-> JoinMaps(sm.map, tm.map,
                               SelectSeq(jo, LAMBDA k : k \in DOMAIN sm.map),
                               EmptyMap),
          err |-> <<"", "">>]

\* computeMapping; so and to are the orders in which the first two range
\* loops visit the fields of source and target
computeMapping(src, tgt, so, to, jo) ==
    MappingOf(KeyMap(src, so, EmptyMap), KeyMap(tgt, to, EmptyMap), jo)

\* the maps one of the first two loops may build
KeyMaps(obj) == {KeyMap(obj, o, EmptyMap) : o \in Orders(DOMAIN obj)}

\* the results computeMapping(src, tgt) may return
Mappings(src, tgt) ==
    {MappingOf(sm, tm, jo) :
        sm \in KeyMaps(src), tm \in KeyMaps(tgt), jo \in Orders(FieldNamePool)}

Fields == {Field(FALSE, <<>>), Field(TRUE, <<>>), Field(TRUE, <<"uid">>),
           Field(TRUE, <<"n", "id">>)}

Objects == UNION {[S -> Fields] :
                    S \in {T \in SUBSET FieldNamePool : Cardinality(T) <= MaxFields}}

NoMapping == [ok |-> FALSE, isNil |-> TRUE, mapping |-> EmptyMap, err |-> <<"", "">>]

\* no second call yet
NoRenaming == [k \in FieldNamePool |-> k]

NoSecond == [kind |-> "none", r |-> NoRenaming, res |-> NoMapping]

\* the object with every value of the metadata renamed by r
Rename(r, obj) ==
    [n \in DOMAIN obj |->
        Field(obj[n].has, [i \in DOMAIN obj[n].keys |-> r[obj[n].keys[i]]])]

\* the injective renamings of the metadata values
Renamings == {r \in [FieldNamePool -> FieldNamePool] : Range(r) = FieldNamePool}

\* computeMapping(source, target, sctx, tctx) is called
ComputeMapping ==
    /\ mpc = "ready"
    /\ mapping' \in Mappings(source, target)
    /\ mpc' = "done"
    /\ UNCHANGED <<source, target, second>>
    /\ UNCHANGED notm

\* the same call is made once more
ComputeAgain ==
    /\ mpc = "done"
    /\ \E res \in Mappings(source, target) :
          second' = [kind |-> "repeat", r |-> NoRenaming, res |-> res]
    /\ mpc' = "again"
    /\ UNCHANGED <<source, target, mapping>>
    /\ UNCHANGED notm

\* computeMapping(target, source, tctx, sctx) is called
ComputeSwapped ==
    /\ mpc = "done"
    /\ \E res \in Mappings(target, source) :
          second' = [kind |-> "swapped", r |-> NoRenaming, res |-> res]
    /\ mpc' = "again"
    /\ UNCHANGED <<source, target, mapping>>
    /\ UNCHANGED notm

\* computeMapping is called on the two objects with their metadata renamed
ComputeRenamed ==
    /\ mpc = "done"
    /\ \E r \in Renamings :
          \E res \in Mappings(Rename(r, source), Rename(r, target)) :
             second' = [kind |-> "renamed", r |-> r, res |-> res]
    /\ mpc' = "again"
    /\ UNCHANGED <<source, target, mapping>>
    /\ UNCHANGED notm

GIdle ==
    /\ str = <<>>
    /\ firstUpper = FALSE
    /\ goified = <<>>
    /\ gpc = "idle"

XIdle ==
    /\ shared = <<>>
    /\ marked = {}
    /\ passes = <<>>
    /\ crashed = FALSE

WIdle ==
    /\ wdata = <<>>
    /\ failing = {}
    /\ iterated = <<>>
    /\ returned = ""
    /\ wpc = "idle"

PIdle ==
    /\ cdata = <<>>
    /\ pname = ""
    /\ isPathParam = FALSE
    /\ mustValidate = FALSE
    /\ ppc = "idle"

TIdle ==
    /\ tsource = <<>>
    /\ ttarget = <<>>
    /\ transformed = <<>>
    /\ retransformed = <<>>
    /\ tpc = "idle"

MIdle ==
    /\ source = EmptyMap
    /\ target = EmptyMap
    /\ mapping = NoMapping
    /\ second = NoSecond
    /\ mpc = "idle"

VIdle ==
    /\ api = BaseAPI
    /\ validated = {}
    /\ stack = <<>>
    /\ tasks = <<>>
    /\ verr = <<>>
    /\ pc = "off"
    /\ pass = 0
    /\ results = <<>>
    /\ visits = [i \in DOMAIN api.Atts |-> 0]

InitM ==
    /\ VIdle
    /\ GIdle
    /\ TIdle
    /\ PIdle
    /\ WIdle
    /\ XIdle
    /\ source \in Objects
    /\ target \in Objects
    /\ mapping = NoMapping
    /\ second = NoSecond
    /\ mpc = "ready"

NextM ==
    \/ ComputeMapping
    \/ ComputeAgain
    \/ ComputeSwapped
    \/ ComputeRenamed

SpecM == InitM /\ [][NextM]_vars

(***************************************************************************)
(* Goify (package codegen)                                                 *)
(***************************************************************************)
\* the runes of the model: letters of both cases, digits, the underscore
\* and one rune that is neither letter nor digit
LowerRunes == <<"a", "b", "c", "d", "e", "f", "g", "h", "i", "j", "k", "l", "m",
                "n", "o", "p", "q", "r", "s", "t", "u", "v", "w", "x", "y", "z">>

UpperRunes == <<"A", "B", "C", "D", "E", "F", "G", "H", "I", "J", "K", "L", "M",
                "N", "O", "P", "Q", "R", "S", "T", "U", "V", "W", "X", "Y", "Z">>

DigitRunes == {"0", "1", "2", "3", "4", "5", "6", "7", "8", "9"}

\* unicode.IsLower, unicode.IsLetter, unicode.IsDigit
IsLower(r) == r \in Range(LowerRunes)

IsLetter(r) == r \in Range(LowerRunes) \cup Range(UpperRunes)

IsDigit(r) == r \in DigitRunes

\* unicode.ToUpper, unicode.ToLower
ToUpperRune(r) ==
    IF IsLower(r) THEN UpperRunes[CHOOSE k \in DOMAIN LowerRunes : LowerRunes[k] = r]
    ELSE r

ToLowerRune(r) ==
    IF r \in Range(UpperRunes)
    THEN LowerRunes[CHOOSE k \in DOMAIN UpperRunes : UpperRunes[k] = r]
    ELSE r

\* strings.ToUpper, strings.ToLower
ToUpper(w) == [k \in DOMAIN w |-> ToUpperRune(w[k])]

ToLower(w) == [k \in DOMAIN w |-> ToLowerRune(w[k])]

\* validIdentifier
validIdentifier(r) == IsLetter(r) \/ IsDigit(r)

\* the entries of commonInitialisms and of reserved that the strings of the
\* model can spell
commonInitialisms == {<<"I", "D">>, <<"U", "I", "D">>}

reserved == {<<"g", "o">>, <<"i", "f">>}

\* fixReserved
fixReserved(w) == IF w \in reserved THEN w \o <<"_">> ELSE w

\* runes without the n runes from index i on (indices count from 0)
RemoveRunes(runes, i, n) ==
    SubSeq(runes, 1, i) \o SubSeq(runes, i + n + 1, Len(runes))

\* runes with the runes of u copied to index w on
CopyRunes(runes, w, u) ==
    [k \in DOMAIN runes |-> IF k > w /\ k <= w + Len(u) THEN u[k - w] ELSE runes[k]]

\* the length of the run of underscores that starts at index i + 1
RECURSIVE UnderscoreRun(_, _, _)
UnderscoreRun(runes, i, n) ==
    IF i + n + 1 < Len(runes) /\ runes[i + n + 2] = "_"
    THEN UnderscoreRun(runes, i, n + 1)
    ELSE n

\* Goify, what is done to the word runes[w:i]
GoifyWord(runes, w, i, fu) ==
    LET word == SubSeq(runes, w + 1, i)
        u    == ToUpper(word)
        r1   == IF u \in commonInitialisms
                THEN CopyRunes(runes, w,
                               IF fu THEN ToUpper(u)
                               ELSE IF w = 0 THEN ToLower(u) ELSE u)
                ELSE IF w > 0 /\ ToLower(word) = word
                THEN [runes EXCEPT ![w + 1] = ToUpperRune(@)]
                ELSE IF w = 0 /\ ToLower(word) = word /\ fu
                THEN [runes EXCEPT ![w + 1] = ToUpperRune(@)]
                ELSE runes
    IN  IF w = 0 /\ ~fu THEN [r1 EXCEPT ![w + 1] = ToLowerRune(@)] ELSE r1

\* Goify, the loop: w is the index of the start of the word, i the scan
RECURSIVE GoifyLoop(_, _, _, _)
GoifyLoop(runes, w, i, fu) ==
    IF ~(i + 1 <= Len(runes)) THEN runes
    ELSE LET last   == i + 1 = Len(runes)
             remove == ~last /\ ~validIdentifier(runes[i + 1])
             under  == ~last /\ ~remove /\ runes[i + 2] = "_"
             change == /\ ~last /\ ~remove /\ ~under
                       /\ IsLower(runes[i + 1]) /\ ~IsLower(runes[i + 2])
             eow    == last \/ under \/ change
             r1     == IF remove THEN RemoveRunes(runes, i, 1)
                       ELSE IF under
                       THEN RemoveRunes(runes, i + 1, UnderscoreRun(runes, i, 1))
                       ELSE runes
         IN  IF ~eow THEN GoifyLoop(r1, w, i + 1, fu)
             ELSE GoifyLoop(GoifyWord(r1, w, i + 1, fu), i + 1, i + 1, fu)

\* Goify(str, firstUpper)
Goify(s, fu) == fixReserved(GoifyLoop(s, 0, 0, fu))

\* the runes the strings handed to Goify are made of
GoifyAlphabet == {"i", "d", "g", "o", "D", "1", "_", "-"}

Strings(n) == UNION {[1..k -> GoifyAlphabet] : k \in 0..n}

\* Goify(str, firstUpper) is called
GoifyCall ==
    /\ gpc = "ready"
    /\ goified' = Goify(str, firstUpper)
    /\ gpc' = "done"
    /\ UNCHANGED <<str, firstUpper>>
    /\ UNCHANGED notg

InitG ==
    /\ VIdle
    /\ MIdle
    /\ TIdle
    /\ PIdle
    /\ WIdle
    /\ XIdle
    /\ str \in Strings(MaxStrLen)
    /\ firstUpper \in BOOLEAN
    /\ goified = <<>>
    /\ gpc = "ready"

NextG == GoifyCall

SpecG == InitG /\ [][NextG]_vars

(***************************************************************************)
(* GoTypeTransform (package codegen)                                       *)
(***************************************************************************)
\* an attribute of a type tree: the kind of its type, the fields of an
\* object, the element attribute of an array or hash and the key attribute of
\* a hash (a list of one attribute, empty when there is none), the name of a
\* named type, and the "transform:key" metadata
TypeAtt(kind, fields, elem, key, name) ==
    [kind |-> kind, fields |-> fields, elem |-> elem, key |-> key, name |-> name,
     has |-> FALSE, keys |-> <<>>]

Integer == TypeAtt("integer", EmptyMap, <<>>, <<>>, "")

String == TypeAtt("string", EmptyMap, <<>>, <<>>, "")

Object(fields) == TypeAtt("object", fields, <<>>, <<>>, "")

Array(elem) == TypeAtt("array", EmptyMap, <<elem>>, <<>>, "")

Hash(key, elem) == TypeAtt("hash", EmptyMap, <<elem>>, <<key>>, "")

\* the attribute with the metadata "transform:key" set to keys
WithKey(att, keys) == [att EXCEPT !.has = TRUE, !.keys = keys]

\* DataType.Kind: a named type has the kind of the type it names
TypeKind(att) == att.kind

\* DataType.Name
TypeName(att) == IF att.name # "" THEN att.name ELSE att.kind

\* design.Object.Name
ObjectName(fields) == "object"

\* the names of the fields of the model, in the order text/template ranges
\* over the keys of a map, and their runes
SortedNames == <<"count", "n">>

NameRunes == [count |-> <<"c", "o", "u", "n", "t">>, n |-> <<"n">>]

\* typeName: the Go name of the type of an attribute if it is named
typeName(att) == IF att.name # "" THEN Goify(<<att.name>>, TRUE) ELSE <<>>

\* what a transform function returns: the code and a nil error, or "" and
\* an error; "panic" when it does not return
Code(lines) ==
    [res |-> "code", code |-> lines, msg |-> "", sctx |-> <<>>, stype |-> "",
     tctx |-> <<>>, ttype |-> ""]

Error(msg, sctx, stype, tctx, ttype) ==
    [res |-> "error", code |-> <<>>, msg |-> msg, sctx |-> sctx, stype |-> stype,
     tctx |-> tctx, ttype |-> ttype]

Panic ==
    [res |-> "panic", code |-> <<>>, msg |-> "", sctx |-> <<>>, stype |-> "",
     tctx |-> <<>>, ttype |-> ""]

\* one line of generated code
Line(op, depth, tctx, sctx) == [op |-> op, depth |-> depth, tctx |-> tctx, sctx |-> sctx]

\* RunTemplate: parts are the pieces of the template in order, each a list of
\* lines or the result of a function the template calls; tmpl.Execute fails
\* when a called function returns an error, and RunTemplate then panics
RECURSIVE RunTemplate(_)
RunTemplate(parts) ==
    IF parts = <<>> THEN Code(<<>>)
    ELSE IF Head(parts).res # "code" THEN Panic
    ELSE LET rest == RunTemplate(Tail(parts))
         IN  IF rest.res # "code" THEN Panic
             ELSE Code(Head(parts).code \o rest.code)

\* the first pair of attributeMap, in the order the range loop visits it,
\* whose attributes differ in kind ("" if there is none)
FirstMismatch(src, tgt, attributeMap, order) ==
    LET bad == SelectSeq(order,
                  LAMBDA n : /\ n \in DOMAIN attributeMap
                             /\ TypeKind(src[n]) # TypeKind(tgt[attributeMap[n]]))
    IN  IF bad = <<>> THEN "" ELSE Head(bad)

Restrict(order, S) == SelectSeq(order, LAMBDA n : n \in S)

RECURSIVE transformAttribute(_, _, _, _, _, _)
RECURSIVE transformObject(_, _, _, _, _, _, _)
RECURSIVE transformArray(_, _, _, _, _, _)
RECURSIVE transformHash(_, _, _, _, _, _)
RECURSIVE transformFields(_, _, _, _, _, _, _, _)

\* transformAttribute; ord holds the orders of the range loops over maps
transformAttribute(src, tgt, sctx, tctx, depth, ord) ==
    IF TypeKind(src) # TypeKind(tgt)
    THEN Error("incompatible attribute types", sctx, TypeName(src), tctx, TypeName(tgt))
    ELSE IF src.kind = "array"
    THEN transformArray(src, tgt, sctx, tctx, depth, ord)
    ELSE IF src.kind = "hash"
    THEN transformHash(src, tgt, sctx, tctx, depth, ord)
    ELSE IF src.kind = "object"
    THEN transformObject(src.fields, tgt.fields, typeName(tgt), sctx, tctx, depth, ord)
    ELSE Code(<<Line("assign", depth, tctx, sctx)>>)

\* the body of the range over AttributeMap in the template of transformObject,
\* names are the source names still to be visited
transformFields(src, tgt, attributeMap, names, sctx, tctx, depth, ord) ==
    IF names = <<>> THEN <<>>
    ELSE LET sn == Head(names)
             tn == attributeMap[sn]
             sa == src[sn]
             ta == tgt[tn]
             sc == sctx \o <<".">> \o Goify(NameRunes[sn], TRUE)
             tc == tctx \o <<".">> \o Goify(NameRunes[tn], TRUE)
             part == IF sa.kind = "array" THEN transformArray(sa, ta, sc, tc, depth, ord)
                     ELSE IF sa.kind = "hash" THEN transformHash(sa, ta, sc, tc, depth, ord)
                     ELSE IF sa.kind = "object"
                     THEN transformObject(sa.fields, ta.fields, typeName(ta), sc, tc, depth, ord)
                     ELSE Code(<<Line("assign", depth, tc, sc)>>)
         IN  <<part>> \o transformFields(src, tgt, attributeMap, Tail(names),
                                         sctx, tctx, depth, ord)

\* transformObject
transformObject(src, tgt, targetType, sctx, tctx, depth, ord) ==
    LET m   == computeMapping(src, tgt, Restrict(ord.so, DOMAIN src),
                              Restrict(ord.to, DOMAIN tgt), ord.jo)
        bad == FirstMismatch(src, tgt, m.mapping, ord.co)
    IN  IF ~m.ok
        THEN Error("invalid metadata transform key",
                   IF m.err[1] = "source" THEN sctx ELSE tctx, m.err[2], <<>>, "")
        ELSE IF bad # ""
        THEN Error("incompatible attribute types",
                   sctx \o <<".", ObjectName(src)>>, TypeName(src[bad]),
                   tctx \o <<".", ObjectName(tgt)>>, TypeName(tgt[m.mapping[bad]]))
        ELSE RunTemplate(<<Code(<<Line("new", depth, tctx \o targetType, <<>>)>>)>>
                         \o transformFields(src, tgt, m.mapping,
                                            Restrict(SortedNames, DOMAIN m.mapping),
                                            sctx, tctx, depth, ord))

\* transformArray; an attribute that is no array has a nil ToArray()
transformArray(src, tgt, sctx, tctx, depth, ord) ==
    IF src.elem = <<>> \/ tgt.elem = <<>> THEN Panic
    ELSE IF TypeKind(src.elem[1]) # TypeKind(tgt.elem[1])
    THEN Error("incompatible attribute types: array elements",
               sctx, TypeName(src.elem[1]), tctx, TypeName(tgt.elem[1]))
    ELSE RunTemplate(<<Code(<<Line("make", depth, tctx, sctx), Line("for", depth, <<>>, sctx)>>),
                       transformAttribute(src.elem[1], tgt.elem[1],
                                          sctx \o <<"[i]">>, tctx \o <<"[i]">>, depth + 1, ord),
                       Code(<<Line("end", depth, <<>>, <<>>)>>)>>)

\* transformHash; an attribute that is no hash has a nil ToHash()
transformHash(src, tgt, sctx, tctx, depth, ord) ==
    IF src.key = <<>> \/ tgt.key = <<>> THEN Panic
    ELSE IF TypeKind(src.elem[1]) # TypeKind(tgt.elem[1])
    THEN Error("incompatible attribute types: hash elements",
               sctx, TypeName(src.elem[1]), tctx, TypeName(tgt.elem[1]))
    ELSE IF TypeKind(src.key[1]) # TypeKind(tgt.key[1])
    THEN Error("incompatible attribute types: hash keys",
               sctx, TypeName(src.key[1]), tctx, TypeName(tgt.key[1]))
    ELSE RunTemplate(<<Code(<<Line("make", depth, tctx, sctx), Line("for", depth, <<>>, sctx),
                              Line("var", depth + 1, <<"tk">>, <<>>)>>),
                       transformAttribute(src.key[1], tgt.key[1],
                                          <<"k">>, <<"tk">>, depth + 1, ord),
                       Code(<<Line("var", depth + 1, <<"tv">>, <<>>)>>),
                       transformAttribute(src.elem[1], tgt.elem[1],
                                          <<"v">>, <<"tv">>, depth + 1, ord),
                       Code(<<Line("put", depth + 1, tctx, <<"tk", "tv">>),
                              Line("end", depth, <<>>, <<>>)>>)>>)

\* the checks that let every target pass
TargetMismatch_None(src, tgt) == FALSE

\* GoTypeTransform, the checks of the target: its shape is not the shape of
\* the source
TargetMismatch(src, tgt) ==
    \/ src.kind = "object" /\ tgt.kind # "object"
    \/ src.kind = "array" /\ tgt.kind # "array"
    \/ src.kind = "hash" /\ tgt.kind # "hash"

\* GoTypeTransform(source, target, targetPkg, funcName)
GoTypeTransform(src, tgt, ord) ==
    LET impl ==
          IF src.kind = "object"
          THEN transformObject(src.fields, tgt.fields, <<tgt.name>>,
                               <<"source">>, <<"target">>, 1, ord)
          ELSE IF src.kind = "array"
          THEN transformArray(src, tgt, <<"source">>, <<"target">>, 1, ord)
          ELSE transformHash(src, tgt, <<"source">>, <<"target">>, 1, ord)
    IN  IF src.kind \notin {"object", "array", "hash"} THEN Panic
        ELSE IF TargetMismatch(src, tgt)
        THEN Error("source shape but target type is", <<"source">>, src.kind,
                   <<"target">>, TypeName(tgt))
        ELSE IF impl.res = "error" THEN impl
        ELSE RunTemplate(<<Code(<<Line("func", 0, <<"target">>, <<"source">>)>>), impl,
                           Code(<<Line("return", 0, <<>>, <<>>)>>)>>)

\* the orders of the range loops over Go maps: the two key loops and the
\* join loop of computeMapping, the check loop of transformObject
Oracles ==
    [so : Orders(Range(SortedNames)), to : Orders(Range(SortedNames)),
     jo : Orders(Range(SortedNames)), co : Orders(Range(SortedNames))]

\* the results GoTypeTransform(src, tgt) may return
Transforms(src, tgt) == {GoTypeTransform(src, tgt, ord) : ord \in Oracles}

\* type trees of depth at most d with one field per object
RECURSIVE Narrow(_)
Narrow(d) ==
    IF d = 0 THEN {Integer, String}
    ELSE LET sub == Narrow(d - 1)
         IN  {Integer, String}
             \cup {Object([n \in {"count"} |-> x]) : x \in sub}
             \cup {Array(x) : x \in sub}
             \cup {Hash(k, x) : k \in {Integer, String}, x \in sub}

\* objects of two fields, the second also with the key of the first or with
\* an empty list of keys
Wide ==
    {Object([n \in {"count", "n"} |-> IF n = "count" THEN x ELSE y]) :
        x \in {Integer, String},
        y \in UNION {{z, WithKey(z, <<"count">>), WithKey(z, <<>>)} : z \in {Integer, String}}}

\* the user types handed to GoTypeTransform
UserTypes == {[t EXCEPT !.name = "T"] : t \in Narrow(MaxTypeDepth) \cup Wide}

\* GoTypeTransform(source, target, targetPkg, funcName) is called
Transform ==
    /\ tpc = "ready"
    /\ transformed' \in Transforms(tsource, ttarget)
    /\ tpc' = "done"
    /\ UNCHANGED <<tsource, ttarget, retransformed>>
    /\ UNCHANGED nott

\* the same call is made once more
TransformAgain ==
    /\ tpc = "done"
    /\ retransformed' \in Transforms(tsource, ttarget)
    /\ tpc' = "again"
    /\ UNCHANGED <<tsource, ttarget, transformed>>
    /\ UNCHANGED nott

InitT ==
    /\ VIdle
    /\ MIdle
    /\ GIdle
    /\ PIdle
    /\ WIdle
    /\ XIdle
    /\ tsource \in UserTypes
    /\ ttarget \in UserTypes
    /\ transformed = Panic
    /\ retransformed = Panic
    /\ tpc = "ready"

NextT ==
    \/ Transform
    \/ TransformAgain

SpecT == InitT /\ [][NextT]_vars

(***************************************************************************)
(* ContextTemplateData (package genapp)                                    *)
(***************************************************************************)
\* AttributeDefinition.IsRequired
IsRequired(params, name) == name \in params.required

\* r.Params() of a route of the context, which the model keeps as the names
\* the call returns
ParamsOf(r) == r

\* the parameter is a path parameter of some route
IsPathParamLoop_AnyRoute(routes, name, pp) ==
    \E j \in DOMAIN routes : name \in Range(ParamsOf(routes[j]))

\* the loop over c.Routes in IsPathParam, routes are the routes still to be
\* visited and pp the value of the variable pp
RECURSIVE IsPathParamLoop(_, _, _)
IsPathParamLoop(routes, name, pp) ==
    IF routes = <<>> THEN pp
    ELSE LET found == name \in Range(ParamsOf(Head(routes)))
         IN  IF ~found THEN FALSE
             ELSE IsPathParamLoop(Tail(routes), name, TRUE)

\* ContextTemplateData.IsPathParam
IsPathParam(c, name) ==
    IF c.Params.isObject THEN IsPathParamLoop(c.Routes, name, FALSE) ELSE FALSE

\* ContextTemplateData.MustValidate
MustValidate(c, name) == IsRequired(c.Params, name) /\ ~IsPathParam(c, name)

\* sequences over S of length at most n
SeqsUpTo(S, n) == UNION {[1..k -> S] : k \in 0..n}

ParamNames == {"id", "x"}

\* the contexts: Params that are an object or not, with their required
\* names, and the path parameters of each route
Contexts ==
    [Params : [isObject : BOOLEAN, required : SUBSET ParamNames],
     Routes : SeqsUpTo(SeqsUpTo(ParamNames, MaxRouteParams), MaxRoutes)]

\* c.IsPathParam(pname) is called
IsPathParamCall ==
    /\ ppc = "ready"
    /\ isPathParam' = IsPathParam(cdata, pname)
    /\ ppc' = "asked"
    /\ UNCHANGED <<cdata, pname, mustValidate>>
    /\ UNCHANGED notp

\* c.MustValidate(pname) is called
MustValidateCall ==
    /\ ppc = "asked"
    /\ mustValidate' = MustValidate(cdata, pname)
    /\ ppc' = "done"
    /\ UNCHANGED <<cdata, pname, isPathParam>>
    /\ UNCHANGED notp

InitP ==
    /\ VIdle
    /\ MIdle
    /\ GIdle
    /\ TIdle
    /\ WIdle
    /\ XIdle
    /\ cdata \in Contexts
    /\ pname \in ParamNames
    /\ isPathParam = FALSE
    /\ mustValidate = FALSE
    /\ ppc = "ready"

NextP ==
    \/ IsPathParamCall
    \/ MustValidateCall

SpecP == InitP /\ [][NextP]_vars

(***************************************************************************)
(* ContextTemplateData.IterateResponses, ContextsWriter.Execute            *)
(***************************************************************************)
\* sort.Ints: insertion of x into the sorted list s, and the sort itself
RECURSIVE InsertInt(_, _)
InsertInt(x, s) ==
    IF s = <<>> THEN <<x>>
    ELSE IF x <= Head(s) THEN <<x>> \o s
    ELSE <<Head(s)>> \o InsertInt(x, Tail(s))

RECURSIVE SortInts(_)
SortInts(s) == IF s = <<>> THEN <<>> ELSE InsertInt(Head(s), SortInts(Tail(s)))

\* the first loop of IterateResponses: the responses are visited in the given
\* order of their names, m and s are the map and the slice built so far
RECURSIVE CollectStatus(_, _, _, _)
CollectStatus(resps, order, m, s) ==
    IF order = <<>> THEN [m |-> m, s |-> s]
    ELSE LET name   == Head(order)
             status == resps[name]
         IN  CollectStatus(resps, Tail(order),
                           [k \in DOMAIN m \cup {status} |->
                              IF k = status THEN name ELSE m[k]],
                           Append(s, status))

\* the second loop of IterateResponses: the iterator is called on m[status]
\* for the statuses s, it fails on the responses in fails; calls are the
\* calls made so far
RECURSIVE IterateLoop(_, _, _, _)
IterateLoop(m, s, fails, calls) ==
    IF s = <<>> THEN [calls |-> calls, err |-> ""]
    ELSE IF m[Head(s)] \in fails
    THEN [calls |-> Append(calls, m[Head(s)]), err |-> m[Head(s)]]
    ELSE IterateLoop(m, Tail(s), fails, Append(calls, m[Head(s)]))

\* ContextTemplateData.IterateResponses; order is the order in which the
\* range loop visits the map c.Responses
IterateResponses(c, order, fails) ==
    LET ms == CollectStatus(c.Responses, order, [k \in {} |-> ""], <<>>)
    IN  IterateLoop(ms.m, SortInts(ms.s), fails, <<>>)

\* ContextsWriter.Execute, its last two statements: the value of
\* data.IterateResponses(...) is dropped, return nil
ExecuteReturn(err) == ""

\* ContextsWriter.Execute; fails holds the templates that fail to execute
\* ("context", "new", "payload") and the responses whose template does
Execute(c, order, fails) ==
    IF "context" \in fails THEN [calls |-> <<>>, err |-> "context"]
    ELSE IF "new" \in fails THEN [calls |-> <<>>, err |-> "new"]
    ELSE IF c.Payload /\ "payload" \in fails THEN [calls |-> <<>>, err |-> "payload"]
    ELSE LET r == IterateResponses(c, order, fails)
         IN  [calls |-> r.calls, err |-> ExecuteReturn(r.err)]

ResponseNames == {"ok", "created", "gone"}

StatusCodes == {200, 404}

Templates == {"context", "new", "payload"}

\* the contexts: responses by name with their status codes, a payload or none
WriterData ==
    [Responses : UNION {[S -> StatusCodes] :
                          S \in {T \in SUBSET ResponseNames : Cardinality(T) <= MaxResponses}},
     Payload : BOOLEAN]

\* c.IterateResponses(it) is called with an iterator that fails on the
\* responses in failing
IterateResponsesCall ==
    /\ wpc = "ready"
    /\ \E order \in Orders(DOMAIN wdata.Responses) :
          LET r == IterateResponses(wdata, order, failing)
          IN  /\ iterated' = r.calls
              /\ returned' = r.err
    /\ wpc' = "iterated"
    /\ UNCHANGED <<wdata, failing>>
    /\ UNCHANGED notw

\* w.Execute(data) is called
ExecuteCall ==
    /\ wpc = "ready"
    /\ \E order \in Orders(DOMAIN wdata.Responses) :
          LET r == Execute(wdata, order, failing)
          IN  /\ iterated' = r.calls
              /\ returned' = r.err
    /\ wpc' = "executed"
    /\ UNCHANGED <<wdata, failing>>
    /\ UNCHANGED notw

InitW ==
    /\ VIdle
    /\ MIdle
    /\ GIdle
    /\ TIdle
    /\ PIdle
    /\ XIdle
    /\ wdata \in WriterData
    /\ failing \in SUBSET (Templates \cup ResponseNames)
    /\ iterated = <<>>
    /\ returned = ""
    /\ wpc = "ready"

NextW ==
    \/ IterateResponsesCall
    \/ ExecuteCall

SpecW == InitW /\ [][NextW]_vars

(***************************************************************************)
(* Two passes of AttributeDefinition.Validate that run concurrently on the *)
(* same description.  The package variable `validated` is the one state    *)
(* they share; a pass reads it, writes it and calls itself on a child in   *)
(* separate steps.                                                         *)
(***************************************************************************)
Passes == {1, 2}

\* an activation of AttributeDefinition.Validate(ctx, parent) on att: before
\* the test of validated[a] ("check"), before the assignment ("mark"), in the
\* loops over the children ("body")
Call(att, ctx, parent, phase, todo) ==
    [att |-> att, ctx |-> ctx, parent |-> parent, phase |-> phase, todo |-> todo]

\* a.BaseParams.Validate("base parameters", a), the call each pass makes
RootCall == Call(1, <<"base parameters">>, Def("api", 0, 0, 0), "check", {})

\* a pass that has made its call and taken no step
NewPass == [st |-> <<RootCall>>, verr |-> <<>>, ran |-> {}, skipped |-> {}]

\* the pass has returned
Returned(p) == passes[p].st = <<>>

\* if validated[a] { return nil }
CheckMarker(p) ==
    /\ ~crashed
    /\ passes[p].st # <<>>
    /\ LET f == Head(passes[p].st)
       IN  /\ f.phase = "check"
           /\ IF IsValidated(marked, f.att)
              THEN passes' = [passes EXCEPT ![p].st = Tail(@),
                                           ![p].skipped =
                                              IF f.att \in passes[p].ran THEN @
                                              ELSE @ \cup {f.att}]
              ELSE passes' = [passes EXCEPT
                                ![p].st = <<[f EXCEPT !.phase = "mark"]>> \o Tail(@),
                                ![p].skipped =
                                   IF f.att \in marked /\ f.att \notin passes[p].ran
                                   THEN @ \cup {f.att} ELSE @]
    /\ UNCHANGED <<shared, marked, crashed>>
    /\ UNCHANGED notx

\* validated[a] = true, then the checks of the attribute itself: it returns
\* at once when the type is nil and goes on to its children otherwise
SetMarker(p) ==
    /\ ~crashed
    /\ passes[p].st # <<>>
    /\ LET f == Head(passes[p].st)
           own == OwnDiags(shared, f.att, f.ctx, f.parent)
       IN  /\ f.phase = "mark"
           /\ Len(passes[p].st) < MaxDepth
           /\ marked' = marked \cup {f.att}
           /\ passes' = [passes EXCEPT
                 ![p].verr = @ \o [i \in DOMAIN own |-> [att |-> f.att, d |-> own[i]]],
                 ![p].ran = @ \cup {f.att},
                 ![p].st = IF shared.Atts[f.att].Type.kind = "nil" THEN Tail(@)
                           ELSE <<[f EXCEPT !.phase = "body",
                                            !.todo = Children(shared, f.att, f.ctx)]>>
                                \o Tail(@)]
    /\ UNCHANGED <<shared, crashed>>
    /\ UNCHANGED notx

\* att.Validate(ctx, a) on a field, elemType.Validate(ctx, a) on the element
CallChild(p) ==
    /\ ~crashed
    /\ passes[p].st # <<>>
    /\ LET f == Head(passes[p].st)
       IN  /\ f.phase = "body"
           /\ \E c \in f.todo :
                 passes' = [passes EXCEPT
                    ![p].st = <<Call(c[2], c[1], Def("attribute", f.att, 0, 0), "check", {}),
                                [f EXCEPT !.todo = @ \ {c}]>> \o Tail(@)]
    /\ UNCHANGED <<shared, marked, crashed>>
    /\ UNCHANGED notx

\* return verr.AsError()
ReturnCall(p) ==
    /\ ~crashed
    /\ passes[p].st # <<>>
    /\ Head(passes[p].st).phase = "body"
    /\ Head(passes[p].st).todo = {}
    /\ passes' = [passes EXCEPT ![p].st = Tail(@)]
    /\ UNCHANGED <<shared, marked, crashed>>
    /\ UNCHANGED notx

\* one pass writes the map while the other reads or writes it: the runtime
\* may stop the process ("concurrent map read and map write")
MapFault ==
    /\ ~crashed
    /\ \E p \in Passes : \E q \in Passes \ {p} :
          /\ passes[p].st # <<>>
          /\ passes[q].st # <<>>
          /\ Head(passes[p].st).phase = "mark"
          /\ Head(passes[q].st).phase \in {"check", "mark"}
    /\ crashed' = TRUE
    /\ UNCHANGED <<shared, marked, passes>>
    /\ UNCHANGED notx

\* the shapes of attribute i of the descriptions the two passes share: no
\* type, a primitive, an object that requires a name it has no field for, an
\* array, an object with a field that leads back to attribute 1
SharedAtts(i) ==
    {Att(TNil, <<>>, ""), Att(TPrim, <<>>, ""),
     Att(Obj1(Succ(i)), <<"b">>, ""),
     Att(TArray(Succ(i)), <<>>, ""),
     Att(Obj2(Succ(i), 1), <<>>, "")}

SharedAPIs ==
    {[BaseAPI EXCEPT !.Atts = Arena(g, ParamAtt), !.BaseParams = 1] :
        g \in {h \in [1..NAtt -> UNION {SharedAtts(i) : i \in 1..NAtt}] :
                 /\ \A i \in 1..NAtt : h[i] \in SharedAtts(i)
                 /\ Connected(h, 0)}}

InitX ==
    /\ VIdle
    /\ MIdle
    /\ GIdle
    /\ TIdle
    /\ PIdle
    /\ WIdle
    /\ shared \in SharedAPIs
    /\ marked = {}
    /\ passes = [p \in Passes |-> NewPass]
    /\ crashed = FALSE

NextX ==
    \/ \E p \in Passes : CheckMarker(p)
    \/ \E p \in Passes : SetMarker(p)
    \/ \E p \in Passes : CallChild(p)
    \/ \E p \in Passes : ReturnCall(p)
    \/ MapFault

SpecX == InitX /\ [][NextX]_vars

(***************************************************************************)
(* The validation pass as a state machine                                  *)
(***************************************************************************)
\* the description is constructed, once, before it is validated
Construct ==
    /\ pc = "new"
    /\ api' \in GraphAPIs \cup DefectAPIs \cup RouteAPIs \cup AbsentAPIs
                 \cup ActionAPIs \cup ViewAPIs
    /\ visits' = [i \in DOMAIN api'.Atts |-> 0]
    /\ pc' = "idle"
    /\ UNCHANGED <<validated, stack, tasks, verr, pass, results>>
    /\ UNCHANGED cvars

Next ==
    \/ Construct
    \/ APIValidate
    \/ AddDiag
    \/ ValidateCall
    \/ ValidateChild
    \/ ValidateReturn
    \/ NilDereference
    \/ APIReturn

Init ==
    /\ api = BaseAPI
    /\ validated = {}
    /\ stack = <<>>
    /\ tasks = <<>>
    /\ verr = <<>>
    /\ pc = "new"
    /\ pass = 0
    /\ results = <<>>
    /\ visits = [i \in DOMAIN api.Atts |-> 0]
    /\ MIdle
    /\ GIdle
    /\ TIdle
    /\ PIdle
    /\ WIdle
    /\ XIdle

Spec == Init /\ [][Next]_vars

\* a started pass is a sequential program: it takes its next step whenever it
\* has one
Step == AddDiag \/ ValidateCall \/ ValidateChild \/ ValidateReturn
        \/ NilDereference \/ APIReturn

FairSpec == Spec /\ WF_vars(Step)

(***************************************************************************)
(* Properties of the validation pass                                       *)
(***************************************************************************)
\* the attributes the pass calls AttributeDefinition.Validate on directly
RECURSIVE CalledAtts(_)
CalledAtts(ts) ==
    IF ts = <<>> THEN {}
    ELSE (IF Head(ts).op = "attr"
          THEN {Head(ts).att} \cup CalledAtts(Head(ts).onNil)
          ELSE {}) \cup CalledAtts(Tail(ts))

\* the attributes one step away from attribute i: the fields of its object
\* (of the object of its named type) and the element of its array
Edges(a, i) ==
    LET t == a.Atts[i].Type
        u == IF t.kind \in {"user", "media"}
             THEN a.Atts[(IF t.kind = "user" THEN a.UTs ELSE a.MTs)[t.ref].att].Type
             ELSE t
    IN  IF u.kind = "object" THEN {u.fields[n] : n \in DOMAIN u.fields}
        ELSE IF u.kind = "array" THEN {u.elem}
        ELSE {}

RECURSIVE Closure(_, _)
Closure(a, S) ==
    LET T == S \cup UNION {Edges(a, i) : i \in S \ {0}}
    IN  IF T = S THEN S ELSE Closure(a, T)

\* the attributes on a cycle through more than one attribute
OnChain(a, i) == i \notin Edges(a, i) /\ i \in Closure(a, Edges(a, i))

\* the attributes a pass reaches
Reachable(a) == Closure(a, CalledAtts(APIValidateBody(a))) \ {0}

Finished == pc \in {"done", "panic"}

\* C1: every validation pass terminates, whatever cycles the attribute graph
\* has: a running pass eventually returns (or aborts on a nil pointer), it
\* never recurses without end.
C1_Terminates == (pc = "run") ~> Finished

\* a pass has returned after validating a type that refers to itself, and one
\* that refers to itself through a chain of other attributes
C1_Witness ==
    /\ pc = "done"
    /\ \E i \in validated \ {0} : i \in Edges(api, i)
    /\ \E i \in validated \ {0} : OnChain(api, i)

\* C2: in a pass that starts with an empty marker set, the checks of an
\* attribute never run twice, and when the pass returns the checks of every
\* attribute reachable through fields, elements and named types ran once.
C2_ExactlyOnce ==
    pass = 1 =>
      /\ \A i \in DOMAIN api.Atts : visits[i] <= 1
      /\ pc = "done" => \A i \in Reachable(api) : visits[i] = 1

\* the first pass has returned and an attribute that two fields lead to, on a
\* cycle, was validated
C2_Witness ==
    /\ pass = 1
    /\ pc = "done"
    /\ \E i \in Reachable(api) :
          /\ Cardinality({j \in Reachable(api) : i \in Edges(api, j)}) >= 2
          /\ OnChain(api, i)
          /\ visits[i] = 1

\* C3: a second pass over the same description validates every attribute
\* again and reports the diagnostics of the first pass.
C3_SecondPassSame ==
    (pass = 2 /\ pc = "done") =>
      /\ \A i \in Reachable(api) : visits[i] = 1
      /\ results[2].isNil = results[1].isNil
      /\ SameBag(results[2].Errors, results[1].Errors)

\* diagnostics a description must get, one per defective definition
Expected(a) ==
    {Diag(Def("resource", ri, 0, 0), "Resource name cannot be empty", <<>>) :
        ri \in {x \in DOMAIN a.Resources : a.Resources[x].Name = ""}}
    \cup UNION {{Diag(Def("action", ri, ai, 0), "Action name cannot be empty", <<>>) :
                   ai \in {x \in DOMAIN a.Resources[ri].Actions :
                              a.Resources[ri].Actions[x].Name = ""}} :
                ri \in DOMAIN a.Resources}
    \cup {Diag(Def("media", a.MediaTypes[m], 0, 0),
               "media type does not define the default view", <<>>) :
            m \in {x \in DOMAIN a.MediaTypes :
                      ~HasView(a.MTs[a.MediaTypes[x]], "default")}}
    \cup {Diag(Def("api", 0, 0, 0), "User type must have a name", <<<<>>>>) :
            u \in {x \in DOMAIN a.Types : a.UTs[a.Types[x]].TypeName = ""}}
    \cup {Diag(Def("response", 0, 0, k), "response status not defined", <<>>) :
            k \in {x \in DOMAIN a.Responses : a.Responses[x].Status = 0}}
    \cup {Diag(Def("encoding", 1, k, 0), "missing MIME type", <<>>) :
            k \in {x \in DOMAIN a.Consumes : a.Consumes[x].MIMETypes = <<>>}}
    \cup {Diag(Def("encoding", 2, k, 0), "missing MIME type", <<>>) :
            k \in {x \in DOMAIN a.Produces : a.Produces[x].MIMETypes = <<>>}}

\* C4: the pass never stops at an error: it always returns, and the aggregate
\* it returns holds the diagnostic of every defective resource, action, media
\* type, user type, response and encoding.
C4_NeverStopsAtAnError ==
    /\ pc # "panic"
    /\ (pass = 1 /\ pc = "done") => Expected(api) \subseteq Range(results[1].Errors)

\* C5: APIDefinition.Validate returns nil exactly when the pass recorded no
\* diagnostic; what it returns otherwise holds the diagnostics recorded, at
\* least one.
C5_NilIffNoDiagnostics ==
    pc = "done" =>
      LET r == results[Len(results)]
      IN  /\ r.isNil <=> verr = <<>>
          /\ ~r.isNil => (r.Errors = verr /\ r.Errors # <<>>)

\* one pass has returned diagnostics and another has returned nil
C5_Witness ==
    /\ pc = "done"
    /\ Len(results) = 2
    /\ ~results[1].isNil
    /\ results[2].isNil

ConflictMsg == "route conflicts with route"

DuplicateMsg == "duplicate wildcard in resource base path and action route"

\* diagnostic d reports route i of R as in conflict with route j
Describes(a, R, d, i, j) ==
    /\ d.msg = ConflictMsg
    /\ d.def = Def("action", R[i].Resource, R[i].Action, 0)
    /\ d.args[1] = R[i].FullPath
    /\ d.args[2] = R[j].FullPath
    /\ d.args[3] = <<a.Resources[R[j].Resource].Name>>
    /\ d.args[4] = <<a.Resources[R[j].Resource].Actions[R[j].Action].Name>>

\* the positions both routes have a wildcard at, with different names
Mismatch(R, i, j) ==
    {k \in DOMAIN R[i].Wildcards \cap DOMAIN R[j].Wildcards :
        R[i].Wildcards[k].Name # R[j].Wildcards[k].Name}

PrefixRelated(R, i, j) ==
    HasPrefix(R[i].Key, R[j].Key) \/ HasPrefix(R[j].Key, R[i].Key)

StrictPrefix(p, s) == HasPrefix(s, p) /\ Len(p) < Len(s)

\* C6: a conflict is reported only between two distinct routes with
\* prefix-related keys whose wildcard names differ at a shared position.
C6_ConflictOnlyIf ==
    LET R == allRoutes(api)
    IN  \A k \in DOMAIN verr :
           verr[k].msg = ConflictMsg =>
             \E i, j \in DOMAIN R :
                /\ i # j
                /\ Describes(api, R, verr[k], i, j)
                /\ PrefixRelated(R, i, j)
                /\ Mismatch(R, i, j) # {}

\* a pass over routes with equal names, with unrelated keys and with a real
\* conflict has to be seen; this one has reported a conflict
C6_Witness ==
    /\ pc = "done"
    /\ \E k \in DOMAIN verr : verr[k].msg = ConflictMsg

\* the mismatches of routes i and j from position k on, as the diagnostic
\* lists them
RECURSIVE MismatchList(_, _, _, _)
MismatchList(R, i, j, k) ==
    IF k > Len(R[i].Wildcards) \/ k > Len(R[j].Wildcards) THEN <<>>
    ELSE (IF k \in Mismatch(R, i, j)
          THEN <<R[i].Wildcards[k].Name, <<R[i].Wildcards[k].Orig>>,
                 R[j].Wildcards[k].Name, <<R[j].Wildcards[k].Orig>>>>
          ELSE <<>>) \o MismatchList(R, i, j, k + 1)

\* C7: when the key of route j is a strict prefix of the key of route i and
\* their wildcard names differ at a shared position, the pass reports exactly
\* one conflict for the pair, on the action of the longer route i, listing
\* every mismatch; none is reported on the shorter route.
C7_OneConflictPerPrefixPair ==
    pc = "done" =>
      LET R == allRoutes(api)
      IN  \A i, j \in DOMAIN R :
             (i # j /\ StrictPrefix(R[j].Key, R[i].Key) /\ Mismatch(R, i, j) # {}) =>
               /\ Cardinality({k \in DOMAIN verr : Describes(api, R, verr[k], i, j)}) = 1
               /\ \A k \in DOMAIN verr :
                     Describes(api, R, verr[k], i, j) =>
                       SubSeq(verr[k].args, 5, Len(verr[k].args)) = MismatchList(R, i, j, 1)
               /\ ~\E k \in DOMAIN verr : Describes(api, R, verr[k], j, i)

\* a pass has returned for two routes, one key a strict prefix of the other,
\* whose names differ at two positions
C7_Witness ==
    /\ pc = "done"
    /\ LET R == allRoutes(api)
       IN  \E i, j \in DOMAIN R :
              /\ StrictPrefix(R[j].Key, R[i].Key)
              /\ Cardinality(Mismatch(R, i, j)) >= 2

\* the pass reported a duplicate wildcard for the route oi of action ai
DuplicateReported(a, ri, ai, oi) ==
    \E k \in DOMAIN verr :
       /\ verr[k].msg = DuplicateMsg
       /\ verr[k].def = Def("action", ri, ai, 0)
       /\ verr[k].args[2] = ResourceFullPath(a, a.Resources[ri])
       /\ verr[k].args[3] = a.Resources[ri].Actions[ai].Routes[oi].Path

\* a wildcard name occurs in the route's own path and in the full base path
SharedWildcard(a, ri, ai, oi) ==
    Range(ExtractWildcards(a.Resources[ri].Actions[ai].Routes[oi].Path))
    \cap Range(ExtractWildcards(ResourceFullPath(a, a.Resources[ri]))) # {}

\* C8: for every route the pass reports a duplicate wildcard if and only if
\* a wildcard name occurs both in the route's own path and in the full base
\* path of its resource, whatever the other routes are.
C8_DuplicateWildcardIff ==
    pc = "done" =>
      \A ri \in DOMAIN api.Resources :
         \A ai \in DOMAIN api.Resources[ri].Actions :
            \A oi \in DOMAIN api.Resources[ri].Actions[ai].Routes :
               DuplicateReported(api, ri, ai, oi) <=> SharedWildcard(api, ri, ai, oi)

\* a duplicate wildcard was reported for a route at another position than in
\* the base path, in a pass that found no conflict between routes
C8_Witness ==
    /\ pc = "done"
    /\ \E ri \in DOMAIN api.Resources :
          /\ DuplicateReported(api, ri, 1, 1)
          /\ ExtractWildcards(api.Resources[ri].Actions[1].Routes[1].Path)[1]
               \notin Range(ExtractWildcards(ResourceFullPath(api, api.Resources[ri])))
    /\ ~\E k \in DOMAIN verr : verr[k].msg = ConflictMsg

(***************************************************************************)
(* Properties of computeMapping                                            *)
(***************************************************************************)
\* the match key of a field: its alias when it has one, else its name
MatchKey(obj, n) == IF obj[n].has THEN obj[n].keys[1] ELSE n

\* some field declares the alias key with an empty list of values
EmptyAlias(obj) == \E n \in DOMAIN obj : obj[n].has /\ obj[n].keys = <<>>

\* no two fields of the object have the same match key
DistinctKeys(obj) ==
    \A m, n \in DOMAIN obj : m # n => MatchKey(obj, m) # MatchKey(obj, n)

\* a mapping as the set of its pairs
Pairs(f) == {<<n, f[n]>> : n \in DOMAIN f}

\* C9: when no alias is empty and the match keys are distinct within each
\* object, computeMapping succeeds and returns exactly the pairs of a source
\* field and a target field with equal match keys.
C9_MappingByMatchKey ==
    (/\ mpc = "done"
     /\ ~EmptyAlias(source) /\ ~EmptyAlias(target)
     /\ DistinctKeys(source) /\ DistinctKeys(target)) =>
       /\ mapping.ok
       /\ Pairs(mapping.mapping) =
            {<<s, t>> \in (DOMAIN source) \X (DOMAIN target) :
                MatchKey(source, s) = MatchKey(target, t)}

\* a field with a two-valued alias was matched with a field of another name,
\* while a field of the source and a field of the target stayed unmatched
C9_Witness ==
    /\ mpc = "done"
    /\ ~EmptyAlias(source) /\ ~EmptyAlias(target)
    /\ DistinctKeys(source) /\ DistinctKeys(target)
    /\ \E s \in DOMAIN mapping.mapping :
          source[s].has /\ Len(source[s].keys) = 2 /\ mapping.mapping[s] # s
    /\ DOMAIN source \ DOMAIN mapping.mapping # {}
    /\ DOMAIN target \ {mapping.mapping[s] : s \in DOMAIN mapping.mapping} # {}

\* C10: computeMapping returns an error and no mapping whenever a field of
\* the source or of the target declares the alias key with no value.
C10_EmptyAliasFails ==
    (mpc = "done" /\ (EmptyAlias(source) \/ EmptyAlias(target))) =>
       /\ ~mapping.ok
       /\ mapping.isNil
       /\ mapping.mapping = EmptyMap

\* the call failed on a field of the target although other fields of both
\* objects have matching keys
C10_Witness ==
    /\ mpc = "done"
    /\ ~mapping.ok
    /\ ~EmptyAlias(source)
    /\ EmptyAlias(target)
    /\ \E s \in DOMAIN source, t \in DOMAIN target :
          /\ ~(target[t].has /\ target[t].keys = <<>>)
          /\ MatchKey(source, s) = MatchKey(target, t)

\* C11: the result of computeMapping does not depend on the order in which
\* the fields are iterated: a second call on the same two objects returns
\* the mapping the first call returned.
C11_OrderIndependent ==
    second.kind = "repeat" =>
      /\ second.res.ok = mapping.ok
      /\ second.res.mapping = mapping.mapping

\* C12: when source and target have the same field names and no alias, the
\* call with source and target swapped returns the pair (t, s) exactly when
\* the call itself returns (s, t).
C12_SwapInverts ==
    (/\ second.kind = "swapped"
     /\ DOMAIN source = DOMAIN target
     /\ \A n \in DOMAIN source : ~source[n].has /\ ~target[n].has) =>
       /\ mapping.ok /\ second.res.ok
       /\ Pairs(second.res.mapping) = {<<p[2], p[1]>> : p \in Pairs(mapping.mapping)}

\* both calls were made on two objects of the same two plain fields
C12_Witness ==
    /\ second.kind = "swapped"
    /\ DOMAIN source = DOMAIN target
    /\ Cardinality(DOMAIN source) >= 2
    /\ \A n \in DOMAIN source : ~source[n].has /\ ~target[n].has
    /\ Cardinality(Pairs(second.res.mapping)) >= 2

\* the match keys that are aliases, and those that are names of fields
AliasKeys(obj) == {obj[n].keys[1] : n \in {m \in DOMAIN obj : obj[m].has /\ obj[m].keys # <<>>}}

PlainKeys(obj) == {n \in DOMAIN obj : ~obj[n].has}

\* the renaming moves no alias onto or away from the name of a field that
\* has no alias
KeepsNames(r, src, tgt) ==
    \A v \in AliasKeys(src) \cup AliasKeys(tgt) :
       \A n \in PlainKeys(src) \cup PlainKeys(tgt) : (r[v] = n) <=> (v = n)

\* C13 as stated: after any injective renaming of the alias values of both
\* objects computeMapping returns the pairs it returned before.
C13_RenamingInvariant ==
    second.kind = "renamed" =>
      /\ second.res.ok = mapping.ok
      /\ second.res.mapping = mapping.mapping

\* C13 amended: after an injective renaming of the alias values that moves no
\* alias onto or away from the name of a field without alias, the mappings
\* computeMapping may return are those it may return before the renaming.
C13_RenamingKeepsMappings ==
    (second.kind = "renamed" /\ KeepsNames(second.r, source, target)) =>
      LET before == {<<m.ok, m.mapping>> : m \in Mappings(source, target)}
          after  == {<<m.ok, m.mapping>> :
                        m \in Mappings(Rename(second.r, source), Rename(second.r, target))}
      IN  /\ <<second.res.ok, second.res.mapping>> \in before
          /\ <<mapping.ok, mapping.mapping>> \in after

\* two fields matched by alias were matched again after the alias was renamed
C13_Witness ==
    /\ second.kind = "renamed"
    /\ KeepsNames(second.r, source, target)
    /\ second.r # NoRenaming
    /\ \E n \in DOMAIN source : source[n].has /\ source[n].keys # <<>>
                                   /\ second.r[source[n].keys[1]] # source[n].keys[1]
                                   /\ n \in DOMAIN second.res.mapping
                                   /\ target[second.res.mapping[n]].has

(***************************************************************************)
(* Properties of the required fields                                       *)
(***************************************************************************)
RequiredMsg == "required field does not exist"

\* the attributes whose checks ran in this pass, that are object-shaped and
\* require the name n although no field has it
MissingIn(a, n) ==
    {i \in DOMAIN a.Atts :
        /\ visits[i] = 1
        /\ a.Atts[i].Type.kind # "nil"
        /\ ~ToObject(a, a.Atts[i].Type).isNil
        /\ n \in Range(AllRequired(a, i))
        /\ n \notin DOMAIN ToObject(a, a.Atts[i].Type).fields}

\* C18: every required name that matches no field of a validated object gets
\* one diagnostic of its own, and a required name that matches a field gets
\* none: the pass returns, for every name, as many diagnostics as validated
\* objects miss it.
C18_OneDiagnosticPerMissingName ==
    (pass = 1 /\ pc = "done") =>
      \A n \in {"a", "b", "c"} :
         Cardinality({k \in DOMAIN verr :
                        verr[k].msg = RequiredMsg /\ verr[k].args[2] = Chars(n)})
           = Cardinality(MissingIn(api, n))

\* the pass validated an object that has one of its three required names as
\* a field and misses the two others
C18_Witness ==
    /\ pass = 1
    /\ pc = "done"
    /\ \E i \in DOMAIN api.Atts :
          /\ i \in MissingIn(api, "b") \cap MissingIn(api, "c")
          /\ "a" \in Range(AllRequired(api, i))
          /\ "a" \in DOMAIN ToObject(api, api.Atts[i].Type).fields
    /\ Cardinality({k \in DOMAIN verr : verr[k].msg = RequiredMsg}) >= 2

(***************************************************************************)
(* Properties of Goify                                                     *)
(***************************************************************************)
\* the identifier without the underscore fixReserved appended
Unfixed(w) ==
    IF w # <<>> /\ w[Len(w)] = "_" /\ SubSeq(w, 1, Len(w) - 1) \in reserved
    THEN SubSeq(w, 1, Len(w) - 1)
    ELSE w

\* C19: whatever the string, Goify returns letters and digits only (but for
\* the underscore appended to a reserved word), the first of them a letter
\* or an underscore.
C19_GoifyValidIdentifier ==
    gpc = "done" =>
      /\ \A k \in DOMAIN Unfixed(goified) :
            IsLetter(Unfixed(goified)[k]) \/ IsDigit(Unfixed(goified)[k])
      /\ goified # <<>> => (IsLetter(goified[1]) \/ goified[1] = "_")
Composite == {"object", "array", "hash"}

\* C14: whenever source is an object, an array or a hash and target is of
\* another top-level kind, GoTypeTransform returns an error and no code
C14_TopLevelMismatchIsError ==
    (tpc # "ready" /\ tsource.kind \in Composite /\ ttarget.kind # tsource.kind)
        => (transformed.res = "error" /\ transformed.code = <<>>)

C14_Witness ==
    /\ tpc = "done"
    /\ tsource.kind = "hash"
    /\ ttarget.kind = "object"
    /\ transformed.res = "error"
    /\ transformed.code = <<>>

\* no attribute of the tree carries the metadata "transform:key"
RECURSIVE NoMetadata(_)
NoMetadata(att) ==
    /\ ~att.has
    /\ \A n \in DOMAIN att.fields : NoMetadata(att.fields[n])
    /\ \A j \in DOMAIN att.elem : NoMetadata(att.elem[j])
    /\ \A j \in DOMAIN att.key : NoMetadata(att.key[j])

\* two trees without metadata differ in kind somewhere: at the top, in the
\* fields of the same name, in the elements or in the keys
RECURSIVE KindMismatch(_, _)
KindMismatch(s, t) ==
    \/ s.kind # t.kind
    \/ \E n \in DOMAIN s.fields \cap DOMAIN t.fields : KindMismatch(s.fields[n], t.fields[n])
    \/ \E j \in DOMAIN s.elem \cap DOMAIN t.elem : KindMismatch(s.elem[j], t.elem[j])
    \/ \E j \in DOMAIN s.key \cap DOMAIN t.key : KindMismatch(s.key[j], t.key[j])

\* C15: whenever a matched pair differs in kind at any depth, GoTypeTransform
\* returns an error and no code; it never aborts without returning
C15_FailFastAtEveryDepth ==
    (/\ tpc # "ready"
     /\ tsource.kind \in Composite
     /\ NoMetadata(tsource)
     /\ NoMetadata(ttarget)
     /\ KindMismatch(tsource, ttarget))
        => (transformed.res = "error" /\ transformed.code = <<>>)

\* the fields of the same name of two objects that differ in kind
MismatchedFields(s, t) ==
    {n \in DOMAIN s.fields \cap DOMAIN t.fields : s.fields[n].kind # t.fields[n].kind}

\* the path ends with the name of the field, as written or as a Go identifier
EndsWith(path, runes) ==
    /\ Len(path) >= Len(runes)
    /\ SubSeq(path, Len(path) - Len(runes) + 1, Len(path)) = runes

NamesField(path, n) ==
    \/ EndsWith(path, <<".">> \o NameRunes[n])
    \/ EndsWith(path, <<".">> \o Goify(NameRunes[n], TRUE))

\* C16: when fields of the same name of two objects differ in kind, the
\* error names the path of such a field on both sides and the two kinds
C16_ErrorNamesFieldPath ==
    (/\ tpc # "ready"
     /\ tsource.kind = "object"
     /\ ttarget.kind = "object"
     /\ NoMetadata(tsource)
     /\ NoMetadata(ttarget)
     /\ MismatchedFields(tsource, ttarget) # {})
        => /\ transformed.res = "error"
           /\ \E n \in MismatchedFields(tsource, ttarget) :
                 /\ NamesField(transformed.sctx, n)
                 /\ NamesField(transformed.tctx, n)
                 /\ transformed.stype = tsource.fields[n].kind
                 /\ transformed.ttype = ttarget.fields[n].kind

\* C17: two calls of GoTypeTransform with the same arguments return the same
\* result
C17_SameArgumentsSameResult ==
    tpc = "again" => retransformed = transformed


\* the parameter is among the path parameters of every route
InEveryRoute(c, name) ==
    \A j \in 1..Len(c.Routes) : \E k \in 1..Len(c.Routes[j]) : c.Routes[j][k] = name

\* C20: IsPathParam returns true exactly when the Params are an object, there
\* is a route and the parameter is a path parameter of every route;
\* MustValidate returns true exactly when the parameter is required and
\* IsPathParam returned false
C20_PathParamOfEveryRoute ==
    /\ ppc # "ready" =>
          (isPathParam <=> /\ cdata.Params.isObject
                           /\ Len(cdata.Routes) >= 1
                           /\ InEveryRoute(cdata, pname))
    /\ ppc = "done" =>
          (mustValidate <=> (pname \in cdata.Params.required /\ ~isPathParam))

C20_Witness ==
    /\ ppc = "done"
    /\ Len(cdata.Routes) = MaxRoutes
    /\ pname \in cdata.Params.required
    /\ isPathParam
    /\ ~mustValidate


(***************************************************************************)
(* Properties of the context writer                                        *)
(***************************************************************************)
\* the number of positions of the sequence s that hold x
Occurrences(s, x) == Cardinality({i \in DOMAIN s : s[i] = x})

\* the status codes of the calls never decrease
ByStatus(c, calls) ==
    \A i, j \in DOMAIN calls :
       i < j => c.Responses[calls[i]] <= c.Responses[calls[j]]

\* C21: IterateResponses calls the iterator in non-decreasing order of status
\* code; when the iterator never fails it is called on every response exactly
\* once and nil is returned, when it fails the failing call is the last one,
\* the only failing one, and its error is returned
C21_EveryResponseOnceInOrder ==
    wpc = "iterated" =>
       /\ ByStatus(wdata, iterated)
       /\ \A n \in DOMAIN wdata.Responses : Occurrences(iterated, n) <= 1
       /\ IF \E i \in DOMAIN iterated : iterated[i] \in failing
          THEN /\ iterated[Len(iterated)] \in failing
               /\ \A i \in 1..(Len(iterated) - 1) : iterated[i] \notin failing
               /\ returned = iterated[Len(iterated)]
          ELSE /\ \A n \in DOMAIN wdata.Responses : Occurrences(iterated, n) = 1
               /\ returned = ""

\* C30: Execute returns nil only when every template it ran succeeded, and
\* else the error of the template that failed
C30_ExecutePropagatesFailures ==
    wpc = "executed" =>
       /\ "context" \in failing => returned = "context"
       /\ ("context" \notin failing /\ "new" \in failing) => returned = "new"
       /\ (\E i \in DOMAIN iterated : iterated[i] \in failing) => returned # ""


(***************************************************************************)
(* Properties of concurrent passes                                         *)
(***************************************************************************)
\* the diagnostics pass p holds that the checks of attribute att recorded
DiagsOf(p, att) == {k \in DOMAIN passes[p].verr : passes[p].verr[k].att = att}

\* C22: a pass that finds an attribute marked by the other pass skips it: it
\* runs none of the attribute's checks and holds none of its diagnostics,
\* also when it returns
C22_MarkedByOtherPassIsSkipped ==
    \A p \in Passes :
       \A att \in passes[p].skipped :
          /\ att \notin passes[p].ran
          /\ DiagsOf(p, att) = {}

\* both passes have returned; the second skipped an attribute without type
\* that the first had marked, so that only the first holds its diagnostic
C22_Witness ==
    /\ Returned(1)
    /\ Returned(2)
    /\ ~crashed
    /\ \E att \in passes[2].skipped :
          /\ shared.Atts[att].Type.kind = "nil"
          /\ att \notin passes[2].ran
          /\ DiagsOf(2, att) = {}
          /\ DiagsOf(1, att) # {}

(***************************************************************************)
(* Properties of the checks of one definition                              *)
(***************************************************************************)
\* the Attributes of the entries of the Params object of the one action
ParamEntries(a) ==
    LET t == a.Atts[a.Resources[1].Actions[1].Params].Type
    IN  IF t.kind = "object" THEN Range(t.fields) ELSE {}

\* a has a structurally absent piece: a parameter without Attribute or
\* without Type, or an array without element Attribute
HasAbsentPiece(a) ==
    \/ \E p \in ParamEntries(a) : p = 0 \/ a.Atts[p].Type.kind = "nil"
    \/ \E i \in DOMAIN a.Atts : a.Atts[i].Type.kind = "array" /\ a.Atts[i].Type.elem = 0

\* C23: a structurally absent piece is only locally fatal: the pass over a
\* description with a parameter without Attribute or Type, or an array without
\* element Attribute, never aborts, and when it has completed it has recorded
\* a diagnostic.
C23_AbsentPieceIsLocallyFatal ==
    (pc \notin {"new", "idle"} /\ HasAbsentPiece(api)) =>
       /\ pc # "panic"
       /\ (pc = "done" /\ pass = 1) => ~results[1].isNil

\* C24: conflicts are reported per unordered pair: two distinct routes with
\* equal keys whose wildcard names differ at some position get exactly one
\* conflict diagnostic, not one per direction of comparison.
C24_OneConflictPerUnorderedPair ==
    pc = "done" =>
      LET R == allRoutes(api)
      IN  \A i, j \in DOMAIN R :
             (i < j /\ R[i].Key = R[j].Key /\ Mismatch(R, i, j) # {}) =>
               Cardinality({k \in DOMAIN verr :
                              \/ Describes(api, R, verr[k], i, j)
                              \/ Describes(api, R, verr[k], j, i)}) = 1

\* the pass recorded a duplicate-status diagnostic for action ai
DuplicateStatusReported(ri, ai) ==
    \E k \in DOMAIN verr :
       /\ verr[k].msg = "Multiple response definitions with status code"
       /\ verr[k].def[1] = "response"
       /\ verr[k].def[2] = ri
       /\ verr[k].def[3] = ai

\* two distinct responses of the action have the same status code
SharesStatus(ac) ==
    \E i, j \in DOMAIN ac.Responses :
       i # j /\ ac.Responses[i].Status = ac.Responses[j].Status

\* C25: ActionDefinition.Validate records a duplicate-status diagnostic if
\* and only if two distinct responses of the action have the same status
\* code, and an action without routes always gets the 'no route' diagnostic.
C25_DuplicateStatusIff ==
    pc = "done" =>
      \A ri \in DOMAIN api.Resources :
         \A ai \in DOMAIN api.Resources[ri].Actions :
            LET ac == api.Resources[ri].Actions[ai]
            IN  /\ DuplicateStatusReported(ri, ai) <=> SharesStatus(ac)
                /\ ac.Routes = <<>> =>
                     \E k \in DOMAIN verr :
                        /\ verr[k].msg = "No route defined for action"
                        /\ verr[k].def = Def("action", ri, ai, 0)

\* a pass has returned for an action without routes whose first and third
\* responses share a status code the second does not have
C25_Witness ==
    /\ pc = "done"
    /\ LET ac == api.Resources[1].Actions[1]
       IN  /\ ac.Routes = <<>>
           /\ Len(ac.Responses) = 3
           /\ ac.Responses[1].Status = ac.Responses[3].Status
           /\ ac.Responses[1].Status # ac.Responses[2].Status
           /\ DuplicateStatusReported(1, 1)

\* the fields of media type m that carry a View name
ViewFields(a, m) ==
    LET o == ToObject(a, a.Atts[a.MTs[m].att].Type)
    IN  IF o.isNil THEN {}
        ELSE {n \in DOMAIN o.fields : o.fields[n] # 0 /\ a.Atts[o.fields[n]].View # ""}

\* the View of attribute att exists on the attribute's own media type
ViewExists(a, att) ==
    /\ a.Atts[att].Type.kind = "media"
    /\ HasView(a.MTs[a.Atts[att].Type.ref], a.Atts[att].View)

\* the pass recorded a view diagnostic for field n of media type m
ViewReported(m, n) ==
    \E k \in DOMAIN verr :
       /\ verr[k].def = Def("media", m, 0, 0)
       /\ verr[k].msg \in {"attribute defines a view for rendering but its type is not MediaTypeDefinition",
                           "attribute of media type uses unknown view"}
       /\ verr[k].args[1] = Chars(n)

\* C26: for every field of a media type that carries a View name, the pass
\* completes, and it records a view diagnostic exactly when the View does not
\* exist on the field's own media type, also when the field's type is not a
\* media type at all.
C26_ViewDiagnosticAndCompletes ==
    (pc \notin {"new", "idle"}
       /\ \E m \in DOMAIN api.MTs : ViewFields(api, m) # {}) =>
       /\ pc # "panic"
       /\ pc = "done" =>
            \A m \in DOMAIN api.MTs :
               \A n \in ViewFields(api, m) :
                  LET o == ToObject(api, api.Atts[api.MTs[m].att].Type)
                  IN  ViewReported(m, n) <=> ~ViewExists(api, o.fields[n])

\* C27: APIDefinition.Validate records a diagnostic whenever the base
\* parameter Attribute of the API is present and is not Object-shaped.
C27_BaseParamsMustBeObject ==
    (pc = "done" /\ pass = 1 /\ api.BaseParams # 0
       /\ Kind(api, api.Atts[api.BaseParams].Type) \in {"prim", "array"}) =>
       \E k \in DOMAIN results[1].Errors :
          results[1].Errors[k].def = Def("api", 0, 0, 0)

\* the place that declares the wildcard v of the route ro of resource r
DeclaredIn(r, ro, v) ==
    IF v \in Range(ExtractWildcards(ro.Path)) THEN "route"
    ELSE IF v \in Range(ExtractWildcards(r.BasePath)) THEN "resource"
    ELSE "api"

\* C28: every wildcard recorded for a route is tagged with the place that
\* declares it: the route when it is a wildcard of the route's own path, the
\* resource when it is a wildcard of the base path only, the API otherwise,
\* also when the route's own path contains the name as part of other text.
C28_WildcardTaggedWithItsPlace ==
    pc = "done" =>
      LET R == allRoutes(api)
      IN  \A i \in DOMAIN R :
             LET r  == api.Resources[R[i].Resource]
                 ro == r.Actions[R[i].Action].Routes[R[i].Route]
             IN  \A k \in DOMAIN R[i].Wildcards :
                    R[i].Wildcards[k].Orig = DeclaredIn(r, ro, R[i].Wildcards[k].Name)

\* C29: whenever the scan compares two routes, the key of `other` being a
\* prefix of the key of `route`, `other` has no more wildcards than `route`:
\* every lookup r.Wildcards[i] is within bounds and the scan never aborts.
C29_ScanLookupsWithinBounds ==
    pc \notin {"new", "idle"} =>
      LET R == allRoutes(api)
      IN  /\ \A i, j \in DOMAIN R :
                (i # j /\ HasPrefix(R[i].Key, R[j].Key)) => ~OutOfRange(R[i], R[j])
          /\ api \in RouteAPIs => pc # "panic"

====
